---- MODULE Spec2Model ----
(***************************************************************************)
(* A model of the conversational session engine of jurni-backend:          *)
(* ADKTravelPlannerService (app/services/adk_travel_planner_service.py)    *)
(* and the routes that drive it.                                           *)
(*                                                                         *)
(* The specifications share the variables and the actions and differ in    *)
(* the operations and inputs they enumerate:                               *)
(*   Spec            the session registry under the cooperative scheduler  *)
(*   SpecState       the session state: initialization, snapshots,         *)
(*                   extraction                                            *)
(*   SpecProfile     initialization on every user profile                  *)
(*   SpecSend        chat turns of send_message                            *)
(*   SpecStructured  chat turns over streams with several structured       *)
(*                   events                                                *)
(*   SpecConvert     the translator of native events                       *)
(*   SpecClassify    the translator's classification of structured data    *)
(*   SpecIntent      the keyword classification of a user message          *)
(*   SpecItinerary   the conversion of an itinerary to trip data           *)
(*   SpecReinit      initialization of sessions that are in use            *)
(***************************************************************************)
EXTENDS Integers, Sequences, FiniteSets, TLC

(***************************************************************************)
(* Bounds of the model.                                                    *)
(***************************************************************************)
\* clock ticks per clock second (the clock is finer than int(timestamp()))
TicksPerSecond == 2
\* the last clock tick the model reaches
MaxTicks == 3
\* native session objects the runtime hands out in one run
MaxHandles == 2
\* mutable objects allocated for session states in one run
MaxCells == 4

(***************************************************************************)
(* Inputs.                                                                 *)
(***************************************************************************)
\* request handlers (coroutines) that may be in flight at the same time
Procs == {"p1", "p2"}
Users == {"u1", "u2"}
\* a session_id argument that is None or "" ("if not session_id")
NoId == ""
\* session ids a caller passes explicitly
ExplicitIds == {"s1", "s2"}
SessionIdArgs == {NoId} \cup ExplicitIds
\* "no value": Python's None, and the result slot of a call that returned nothing
None == "None"

VARIABLES
    now,         \* the wall clock, in ticks
    sessions,    \* self.sessions: session key -> native session (its handle)
    runners,     \* self.runners: never written by the service
    rtStore,     \* the runtime session service's own store: <<user, key>> -> handle
    nextHandle,  \* the next native session object the runtime creates
    rtLog,       \* the create_session calls the runtime has received, in order
    pc,          \* per handler: "idle", or the await it is suspended at
    local,       \* per handler: the locals of the suspended call
    last,        \* the last operation that ran a step, with its outcome
    state,       \* per native session: session.state, key -> value
    cells,       \* the mutable objects session states hold: object -> contents
    nextCell,    \* the next object allocated
    history,     \* per native session: session.events, the recorded events
    snap,        \* the mapping get_session_state returned last, as its caller holds it
    turn,        \* the send_message generator of the turn in progress
    emitted,     \* the wire events that generator has yielded, in order
    convIn,      \* the native event _convert_adk_event_to_dict was last called on
    convOut,     \* the wire event that call returned
    callIn,      \* the arguments of the last call of a stateless helper
    callOut      \* what that call returned

regVars == <<now, sessions, runners, rtStore, nextHandle, rtLog, pc, local>>
stVars == <<state, cells, nextCell, history, snap>>
sendVars == <<turn, emitted>>
convVars == <<convIn, convOut>>
callVars == <<callIn, callOut>>
vars == <<now, sessions, runners, rtStore, nextHandle, rtLog, pc, local, last,
          state, cells, nextCell, history, snap, turn, emitted, convIn, convOut,
          callIn, callOut>>

(***************************************************************************)
(* Helpers on Python dicts, modelled as functions with a finite domain.    *)
(***************************************************************************)
EmptyDict == <<>>
DictSet(d, k, v) == [x \in DOMAIN d \cup {k} |-> IF x = k THEN v ELSE d[x]]
DictDel(d, k) == [x \in DOMAIN d \ {k} |-> d[x]]
DictGet(d, k, default) == IF k \in DOMAIN d THEN d[k] ELSE default

\* the caller holds no mapping from get_session_state yet
NoSnap == [session_id |-> None]

\* no send_message generator exists
NoTurn == [pc |-> "none"]

\* the translator has not been called
NoEvent == [called |-> FALSE]
NoWire == EmptyDict

\* no stateless helper has been called
NoCall == [called |-> FALSE]

\* the record of a step that is no call of the service
NoOp(name) == [op |-> name, step |-> "whole", proc |-> None, key |-> None, arg |-> None,
               known |-> FALSE, out |-> "returned", val |-> None]

(***************************************************************************)
(* create_or_get_session                                                   *)
(***************************************************************************)
\* int(datetime.now().timestamp()): the clock truncated to whole seconds
ClockSeconds(t) == t \div TicksPerSecond

\* f"session_{user_id}_{int(datetime.now().timestamp())}"
SynthKey(u, t) == "session_" \o u \o "_" \o ToString(ClockSeconds(t))

\* lines 33-34: the key the call works on
ResolveKey(u, sid, t) == IF sid = NoId THEN SynthKey(u, t) ELSE sid

\* line 36: "if session_id not in self.sessions"
MustCreateAlways(reg, key) == TRUE
MustCreate(reg, key) == key \notin DOMAIN reg

\* lines 47-51: the returned mapping (created_at left out: it is the clock)
SessionInfo(key) == [id |-> key, status |-> "active"]

\* A known key: lines 33-36 and 47-51 run without reaching the await.
CreateOrGetKnown(p, u, sid) ==
    LET key == ResolveKey(u, sid, now) IN
    /\ pc[p] = "idle"
    /\ ~MustCreate(sessions, key)
    /\ last' = [op |-> "create_or_get", step |-> "known", proc |-> p, key |-> key,
                arg |-> sid, known |-> TRUE, out |-> "returned", val |-> SessionInfo(key)]
    /\ UNCHANGED <<regVars, stVars, sendVars, convVars, callVars>>

\* An unknown key: lines 33-38 run up to the awaited create_session call, where
\* the coroutine is suspended with the runtime already asked.
CreateOrGetCall(p, u, sid) ==
    LET key == ResolveKey(u, sid, now) IN
    /\ pc[p] = "idle"
    /\ MustCreate(sessions, key)
    /\ Len(rtLog) < MaxHandles
    /\ pc' = [pc EXCEPT ![p] = "await_create"]
    /\ local' = [local EXCEPT ![p] = [user |-> u, key |-> key, arg |-> sid]]
    /\ rtLog' = Append(rtLog, <<u, key>>)
    /\ last' = [op |-> "create_or_get", step |-> "call", proc |-> p, key |-> key,
                arg |-> sid, known |-> FALSE, out |-> "awaiting", val |-> None]
    /\ UNCHANGED <<now, sessions, runners, rtStore, nextHandle, stVars, sendVars, convVars, callVars>>

\* The runtime answers with a new native session; lines 45-51 register it under
\* the key, whatever the registry holds by now, and return.
CreateOrGetResume(p) ==
    LET key == local[p].key
        u == local[p].user IN
    /\ pc[p] = "await_create"
    /\ rtStore' = DictSet(rtStore, <<u, key>>, nextHandle)
    /\ sessions' = DictSet(sessions, key, nextHandle)
    /\ nextHandle' = nextHandle + 1
    /\ pc' = [pc EXCEPT ![p] = "idle"]
    /\ local' = [local EXCEPT ![p] = None]
    /\ last' = [op |-> "create_or_get", step |-> "resume", proc |-> p, key |-> key,
                arg |-> local[p].arg, known |-> key \in DOMAIN sessions,
                out |-> "returned", val |-> SessionInfo(key)]
    /\ state' = DictSet(state, nextHandle, EmptyDict)
    /\ history' = DictSet(history, nextHandle, <<>>)
    /\ UNCHANGED <<now, runners, rtLog, cells, nextCell, snap, sendVars, convVars, callVars>>

\* The runtime refuses a session it already stores for this user and id (its
\* session service may raise instead of replacing); the exception leaves
\* create_or_get_session, which registers nothing.
CreateOrGetRaise(p) ==
    LET key == local[p].key
        u == local[p].user IN
    /\ pc[p] = "await_create"
    /\ <<u, key>> \in DOMAIN rtStore
    /\ pc' = [pc EXCEPT ![p] = "idle"]
    /\ local' = [local EXCEPT ![p] = None]
    /\ last' = [op |-> "create_or_get", step |-> "resume", proc |-> p, key |-> key,
                arg |-> local[p].arg, known |-> key \in DOMAIN sessions,
                out |-> "AlreadyExists", val |-> None]
    /\ UNCHANGED <<now, sessions, runners, rtStore, nextHandle, rtLog, stVars, sendVars, convVars, callVars>>

(***************************************************************************)
(* cleanup_session                                                         *)
(***************************************************************************)
\* lines 428-431 on one of the two dicts
CleanupDictAll(d, key) == IF key \in DOMAIN d THEN EmptyDict ELSE d
CleanupDict(d, key) == IF key \in DOMAIN d THEN DictDel(d, key) ELSE d

CleanupSession(p, key) ==
    /\ pc[p] = "idle"
    /\ sessions' = CleanupDict(sessions, key)
    /\ runners' = CleanupDict(runners, key)
    /\ last' = [op |-> "cleanup", step |-> "whole", proc |-> p, key |-> key,
                arg |-> key, known |-> key \in DOMAIN sessions,
                out |-> "returned", val |-> None]
    /\ UNCHANGED <<now, rtStore, nextHandle, rtLog, pc, local, stVars, sendVars, convVars, callVars>>

(***************************************************************************)
(* The clock.                                                              *)
(***************************************************************************)
Tick ==
    /\ now < MaxTicks
    /\ now' = now + 1
    /\ last' = NoOp("tick")
    /\ UNCHANGED <<sessions, runners, rtStore, nextHandle, rtLog, pc, local, stVars, sendVars, convVars, callVars>>

(***************************************************************************)
(* Spec: the registry under the cooperative scheduler.                     *)
(***************************************************************************)
Init ==
    /\ now = 0
    /\ sessions = EmptyDict
    /\ runners = EmptyDict
    /\ rtStore = EmptyDict
    /\ nextHandle = 1
    /\ rtLog = <<>>
    /\ pc = [p \in Procs |-> "idle"]
    /\ local = [p \in Procs |-> None]
    /\ last = NoOp("start")
    /\ state = EmptyDict
    /\ cells = EmptyDict
    /\ nextCell = 1
    /\ history = EmptyDict
    /\ snap = NoSnap
    /\ turn = NoTurn
    /\ emitted = <<>>
    /\ convIn = NoEvent
    /\ convOut = NoWire
    /\ callIn = NoCall
    /\ callOut = None

Next ==
    \/ \E p \in Procs, u \in Users, sid \in SessionIdArgs : CreateOrGetKnown(p, u, sid)
    \/ \E p \in Procs, u \in Users, sid \in SessionIdArgs : CreateOrGetCall(p, u, sid)
    \/ \E p \in Procs : CreateOrGetResume(p)
    \/ \E p \in Procs : CreateOrGetRaise(p)
    \/ \E p \in Procs, key \in ExplicitIds : CleanupSession(p, key)
    \/ Tick

Spec == Init /\ [][Next]_vars

(***************************************************************************)
(* Session state.  A value of session.state is either immutable (a string) *)
(* or a reference to a mutable object (a dict), whose contents live in     *)
(* cells: two mappings that hold the same reference share the object.      *)
(***************************************************************************)
Ref(c) == [ref |-> c]
Str(x) == [str |-> x]
IsRef(v) == "ref" \in DOMAIN v

\* what a mapping reads, references followed
Deep(d, heap) == [k \in DOMAIN d |-> IF IsRef(d[k]) THEN heap[d[k].ref] ELSE d[k]]

\* datetime.now().isoformat()
IsoFormat(t) == "T" \o ToString(t)

\* "if session_id not in self.sessions: raise ValueError(...)"
SessionNotFoundSilent == "returned"
SessionNotFound == "ValueError"

\* the fields of a stored user profile that the service reads
ProfileFields == {"email", "display_name", "first_name", "last_name",
                  "passport_nationality", "address", "preferred_transport",
                  "travel_style", "budget_range"}
\* the value a profile gives for a field it holds
Given(f) == "my_" \o f
\* every profile that holds some of the fields
AllProfiles == {[f \in S |-> Given(f)] : S \in SUBSET ProfileFields}
\* the profiles the state specification initializes with
StateProfiles == {EmptyDict, [f \in {"email", "first_name"} |-> Given(f)]}
\* the existing_trips argument: omitted (None), an empty list, a list of trips
TripInputs == {[isNone |-> TRUE, items |-> <<>>],
               [isNone |-> FALSE, items |-> <<>>],
               [isNone |-> FALSE, items |-> <<"trip1">>]}

NoTrips == [isNone |-> TRUE, items |-> <<>>]

\* "existing_trips or []"
OrEmptyList(trips) == IF ~trips.isNone /\ Len(trips.items) > 0 THEN trips.items ELSE <<>>

\* the user_profile substructure with .get(name) where the code gives a default
BuildUserProfileBare(profile, trips) ==
    [email |-> DictGet(profile, "email", None),
     display_name |-> DictGet(profile, "display_name", DictGet(profile, "first_name", "")),
     first_name |-> DictGet(profile, "first_name", ""),
     last_name |-> DictGet(profile, "last_name", ""),
     passport_nationality |-> DictGet(profile, "passport_nationality", None),
     home |-> [address |-> DictGet(profile, "address", None),
               local_prefer_mode |-> DictGet(profile, "preferred_transport", "driving")],
     preferences |-> [previous_trips |-> OrEmptyList(trips),
                      travel_style |-> DictGet(profile, "travel_style", "adventure"),
                      budget_range |-> DictGet(profile, "budget_range", "moderate")]]

\* lines 69-84: the user_profile substructure
BuildUserProfile(profile, trips) ==
    [email |-> DictGet(profile, "email", None),
     display_name |-> DictGet(profile, "display_name", DictGet(profile, "first_name", "")),
     first_name |-> DictGet(profile, "first_name", ""),
     last_name |-> DictGet(profile, "last_name", ""),
     passport_nationality |-> DictGet(profile, "passport_nationality", "US"),
     home |-> [address |-> DictGet(profile, "address", "Default Address"),
               local_prefer_mode |-> DictGet(profile, "preferred_transport", "driving")],
     preferences |-> [previous_trips |-> OrEmptyList(trips),
                      travel_style |-> DictGet(profile, "travel_style", "adventure"),
                      budget_range |-> DictGet(profile, "budget_range", "moderate")]]

\* lines 68-87: user_context, with the two new dicts at the objects c and c + 1
UserContext(c, t) ==
    [user_profile |-> Ref(c), itinerary |-> Ref(c + 1), system_time |-> Str(IsoFormat(t))]

\* a write that puts the context in the place of the state
WriteContextReplacing(st, ctx) == ctx

\* lines 90-91: "for key, value in user_context.items(): session.state[key] = value"
WriteContext(st, ctx) == [k \in DOMAIN st \cup DOMAIN ctx |-> IF k \in DOMAIN ctx THEN ctx[k] ELSE st[k]]

\* initialize_session_with_user_data
InitializeSession(p, u, key, profile, trips) ==
    /\ pc[p] = "idle"
    /\ IF key \notin DOMAIN sessions
       THEN /\ last' = [op |-> "initialize", step |-> "whole", proc |-> p, key |-> key,
                        arg |-> [profile |-> profile, trips |-> trips],
                        known |-> FALSE, out |-> SessionNotFound, val |-> None]
            /\ UNCHANGED <<regVars, stVars, sendVars, convVars, callVars>>
       ELSE LET h == sessions[key]
                ctx == UserContext(nextCell, now) IN
            /\ nextCell + 1 <= MaxCells
            /\ cells' = DictSet(DictSet(cells, nextCell, BuildUserProfile(profile, trips)),
                                nextCell + 1, EmptyDict)
            /\ nextCell' = nextCell + 2
            /\ state' = [state EXCEPT ![h] = WriteContext(@, ctx)]
            /\ last' = [op |-> "initialize", step |-> "whole", proc |-> p, key |-> key,
                        arg |-> [profile |-> profile, trips |-> trips],
                        known |-> TRUE, out |-> "returned",
                        val |-> [status |-> "initialized", user_context |-> ctx]]
            /\ UNCHANGED <<regVars, history, snap, sendVars, convVars, callVars>>

\* line 364: "dict(session.state)", a new mapping with the values of the old one
CopyDict(d) == [k \in DOMAIN d |-> d[k]]

\* lines 361-367: the mapping get_session_state returns
SessionStateInfo(u, key, h) ==
    [session_id |-> key, user_id |-> u, state |-> CopyDict(state[h]),
     status |-> "active", message_count |-> Len(history[h])]

\* get_session_state
GetSessionState(p, u, key) ==
    /\ pc[p] = "idle"
    /\ IF key \notin DOMAIN sessions
       THEN /\ last' = [op |-> "get_state", step |-> "whole", proc |-> p, key |-> key,
                        arg |-> key, known |-> FALSE, out |-> SessionNotFound, val |-> None]
            /\ UNCHANGED <<regVars, stVars, sendVars, convVars, callVars>>
       ELSE LET info == SessionStateInfo(u, key, sessions[key]) IN
            /\ snap' = info
            /\ last' = [op |-> "get_state", step |-> "whole", proc |-> p, key |-> key,
                        arg |-> key, known |-> TRUE, out |-> "returned",
                        val |-> [session_id |-> key]]
            /\ UNCHANGED <<regVars, state, cells, nextCell, history, sendVars, convVars, callVars>>

(***************************************************************************)
(* Itinerary extraction.                                                   *)
(***************************************************************************)
\* Python truthiness of a dict and of a list
TruthyDict(d) == DOMAIN d # {}
TruthySeq(q) == Len(q) > 0

Range(q) == {q[i] : i \in 1..Len(q)}

\* str() of a number
PyStr(n) == ToString(n)

\* lines 407-409: the events of all days, in order
RECURSIVE AllEvents(_)
AllEvents(days) ==
    IF Len(days) = 0 THEN <<>>
    ELSE DictGet(Head(days), "events", <<>>) \o AllEvents(Tail(days))

\* a collection that takes the field from events of every type
RECURSIVE CollectAnyType(_, _, _, _)
CollectAnyType(evs, etype, field, acc) ==
    IF Len(evs) = 0 THEN acc
    ELSE LET e == Head(evs)
             v == DictGet(e, field, "") IN
         CollectAnyType(Tail(evs), etype, field,
                        IF v # "" /\ v \notin Range(acc) THEN Append(acc, v) ELSE acc)

\* lines 410-422 for one of the three lists: the non-empty values of `field` of
\* the events of type `etype`, each once, in first-seen order
RECURSIVE Collect(_, _, _, _)
Collect(evs, etype, field, acc) ==
    IF Len(evs) = 0 THEN acc
    ELSE LET e == Head(evs)
             v == DictGet(e, field, "") IN
         Collect(Tail(evs), etype, field,
                 IF DictGet(e, "event_type", "") = etype /\ v # "" /\ v \notin Range(acc)
                 THEN Append(acc, v) ELSE acc)

\* _convert_itinerary_to_trip_data
ConvertItinerary(it) ==
    LET travelers == DictGet(it, "travelers", EmptyDict)
        days == DictGet(it, "days", <<>>)
        evs == IF TruthySeq(days) THEN AllEvents(days) ELSE <<>> IN
    [destination |-> DictGet(it, "destination", ""),
     departure_city |-> DictGet(it, "origin", ""),
     start_date |-> DictGet(it, "start_date", ""),
     end_date |-> DictGet(it, "end_date", ""),
     total_budget |-> PyStr(DictGet(it, "estimated_budget", 0)),
     currency |-> "USD",
     total_adult_travellers |-> PyStr(DictGet(travelers, "adults", 1)),
     total_child_travellers |-> DictGet(travelers, "children", 0),
     travelling_with_pets |-> DictGet(travelers, "pets", FALSE),
     stay_preference |-> Collect(evs, "hotel", "room_selection", <<>>),
     transportation_preference |-> Collect(evs, "transportation", "type", <<>>),
     extra_activities |-> Collect(evs, "visit", "description", <<>>),
     special_requirements |-> DictGet(it, "notes", "")]

\* line 375: state_data.get("state", {}).get("itinerary", {})
ItineraryOf(st, heap) ==
    IF "itinerary" \in DOMAIN st THEN heap[st["itinerary"].ref] ELSE EmptyDict

\* a test that is content with any non-empty itinerary
HasPlanAnyItinerary(it) == TruthyDict(it)

\* line 377: "if itinerary and itinerary.get('days')"
HasPlan(it) == TruthyDict(it) /\ "days" \in DOMAIN it /\ TruthySeq(it["days"])

\* extract_itinerary_from_session
ExtractItinerary(p, u, key) ==
    /\ pc[p] = "idle"
    /\ IF key \notin DOMAIN sessions
       THEN last' = [op |-> "extract", step |-> "whole", proc |-> p, key |-> key,
                     arg |-> key, known |-> FALSE, out |-> SessionNotFound, val |-> None]
       ELSE LET info == SessionStateInfo(u, key, sessions[key])
                it == ItineraryOf(info.state, cells) IN
            last' = [op |-> "extract", step |-> "whole", proc |-> p, key |-> key,
                     arg |-> key, known |-> TRUE, out |-> "returned",
                     val |-> IF HasPlan(it) THEN [trip |-> ConvertItinerary(it)]
                             ELSE [absent |-> TRUE]]
    /\ UNCHANGED <<regVars, stVars, sendVars, convVars, callVars>>

(***************************************************************************)
(* The writes of the external runtime to a session's state, and the        *)
(* changes a caller makes to a mapping get_session_state gave it.          *)
(***************************************************************************)
EventHotel == [event_type |-> "hotel", room_selection |-> "Suite"]
EventVisit == [event_type |-> "visit", description |-> "Museum"]
DayOne == [events |-> <<EventHotel, EventVisit>>]
\* the itineraries the runtime writes
RuntimeItineraries == {[destination |-> "Paris"],
                       [destination |-> "Paris", days |-> <<>>],
                       [destination |-> "Paris", days |-> <<DayOne>>]}

\* the runtime changes the itinerary object in place (itinerary["days"] = ...)
RuntimeMutateItinerary(h, it) ==
    /\ h \in DOMAIN state
    /\ "itinerary" \in DOMAIN state[h]
    /\ cells' = [cells EXCEPT ![state[h]["itinerary"].ref] = it]
    /\ last' = [NoOp("runtime_write") EXCEPT !.key = h]
    /\ UNCHANGED <<regVars, state, nextCell, history, snap, sendVars, convVars, callVars>>

\* the runtime writes a free-form key of its own (state["agent_note"] = ...)
RuntimeSetNote(h) ==
    /\ h \in DOMAIN state
    /\ state' = [state EXCEPT ![h] = DictSet(@, "agent_note", Str("note"))]
    /\ last' = [NoOp("runtime_write") EXCEPT !.key = h]
    /\ UNCHANGED <<regVars, cells, nextCell, history, snap, sendVars, convVars, callVars>>

\* the caller assigns a key of the mapping it was given (snapshot["mine"] = ...)
CallerSetKey ==
    /\ snap.session_id # None
    /\ snap' = [snap EXCEPT !.state = DictSet(@, "mine", Str("mine"))]
    /\ last' = NoOp("caller_write")
    /\ UNCHANGED <<regVars, state, cells, nextCell, history, sendVars, convVars, callVars>>

\* the caller changes a value of the mapping in place
\* (snapshot["itinerary"]["days"] = [])
CallerMutateNested ==
    /\ snap.session_id # None
    /\ "itinerary" \in DOMAIN snap.state
    /\ cells' = [cells EXCEPT ![snap.state["itinerary"].ref] = DictSet(@, "days", <<>>)]
    /\ last' = NoOp("caller_write")
    /\ UNCHANGED <<regVars, state, nextCell, history, snap, sendVars, convVars, callVars>>

(***************************************************************************)
(* SpecState: one handler working on the state of two sessions.            *)
(***************************************************************************)
StateProc == "p1"
StateUser == "u1"
\* the one key it creates sessions for, one time fewer than the runtime has
\* native sessions to hand out; the other keys stay unregistered
StateKey == "s1"

NextState ==
    \/ CreateOrGetKnown(StateProc, StateUser, StateKey)
    \/ nextHandle < MaxHandles /\ CreateOrGetCall(StateProc, StateUser, StateKey)
    \/ CreateOrGetResume(StateProc)
    \/ \E key \in ExplicitIds : CleanupSession(StateProc, key)
    \/ \E key \in ExplicitIds, profile \in StateProfiles :
          InitializeSession(StateProc, StateUser, key, profile, NoTrips)
    \/ \E key \in ExplicitIds : GetSessionState(StateProc, StateUser, key)
    \/ \E key \in ExplicitIds : ExtractItinerary(StateProc, StateUser, key)
    \/ \E h \in DOMAIN state, it \in RuntimeItineraries : RuntimeMutateItinerary(h, it)
    \/ \E h \in DOMAIN state : RuntimeSetNote(h)
    \/ CallerSetKey
    \/ CallerMutateNested

SpecState == Init /\ [][NextState]_vars

(***************************************************************************)
(* SpecProfile: initialize_session_with_user_data on every profile.  It    *)
(* starts where create_or_get_session("u1", "s1") and a first              *)
(* initialization with an empty profile, both at tick 0, leave the         *)
(* service.                                                                *)
(***************************************************************************)
InitProfile ==
    /\ now = 0
    /\ sessions = DictSet(EmptyDict, StateKey, 1)
    /\ runners = EmptyDict
    /\ rtStore = DictSet(EmptyDict, <<StateUser, StateKey>>, 1)
    /\ nextHandle = 2
    /\ rtLog = <<<<StateUser, StateKey>>>>
    /\ pc = [p \in Procs |-> "idle"]
    /\ local = [p \in Procs |-> None]
    /\ last = [op |-> "initialize", step |-> "whole", proc |-> StateProc, key |-> StateKey,
               arg |-> [profile |-> EmptyDict, trips |-> NoTrips],
               known |-> TRUE, out |-> "returned",
               val |-> [status |-> "initialized", user_context |-> UserContext(1, 0)]]
    /\ state = DictSet(EmptyDict, 1, WriteContext(EmptyDict, UserContext(1, 0)))
    /\ cells = DictSet(DictSet(EmptyDict, 1, BuildUserProfile(EmptyDict, NoTrips)),
                       2, EmptyDict)
    /\ nextCell = 3
    /\ history = DictSet(EmptyDict, 1, <<>>)
    /\ snap = NoSnap
    /\ turn = NoTurn
    /\ emitted = <<>>
    /\ convIn = NoEvent
    /\ convOut = NoWire
    /\ callIn = NoCall
    /\ callOut = None

NextProfile ==
    \/ \E profile \in AllProfiles, trips \in TripInputs :
          InitializeSession(StateProc, StateUser, StateKey, profile, trips)
    \/ \E it \in RuntimeItineraries : RuntimeMutateItinerary(1, it)

SpecProfile == InitProfile /\ [][NextProfile]_vars

(***************************************************************************)
(* The event translator.  Values are tagged with their Python type:        *)
(* JSON-safe values (null, str, num, bool, list, dict) and the two kinds   *)
(* _make_json_serializable converts (bytes, objects).                      *)
(***************************************************************************)
JNull == [t |-> "null", v |-> 0]
JStr(x) == [t |-> "str", v |-> x]
JNum(n) == [t |-> "num", v |-> n]
JBool(b) == [t |-> "bool", v |-> b]
JList(q) == [t |-> "list", v |-> q]
JDict(d) == [t |-> "dict", v |-> d]
\* bytes, named by their base64 text
PyBytes(b64) == [t |-> "bytes", v |-> b64]
\* an object with model_dump(), named by what it dumps
PyModel(d) == [t |-> "model", v |-> d]
\* any other object, named by its str()
PyObject(repr) == [t |-> "object", v |-> repr]

\* an attribute or accessor of a native event: missing, failing when read, or a value
Absent == [k |-> "absent"]
Raises == [k |-> "raises"]
Val(x) == [k |-> "val", v |-> x]

\* Python truthiness
Truthy(j) ==
    CASE j.t = "null" -> FALSE
      [] j.t = "str" -> j.v # ""
      [] j.t = "num" -> j.v # 0
      [] j.t = "bool" -> j.v
      [] j.t = "list" -> Len(j.v) > 0
      [] j.t = "dict" -> DOMAIN j.v # {}
      [] j.t = "bytes" -> j.v # ""
      [] OTHER -> TRUE

\* a conversion that stops at the first level
MakeJsonSerializableShallow(x) == IF x.t = "model" THEN JDict(x.v) ELSE x

\* _make_json_serializable
RECURSIVE MakeJsonSerializable(_)
MakeJsonSerializable(x) ==
    CASE x.t \in {"null", "str", "num", "bool"} -> x
      [] x.t = "bytes" -> JStr(x.v)
      [] x.t = "list" -> JList([i \in 1..Len(x.v) |-> MakeJsonSerializable(x.v[i])])
      [] x.t = "dict" -> JDict([k \in DOMAIN x.v |-> MakeJsonSerializable(x.v[k])])
      [] x.t = "model" -> MakeJsonSerializable(JDict(x.v))
      [] OTHER -> JStr(x.v)

\* the texts of the model that json.loads accepts, with what it makes of them
FlightRecord == JDict([flightNumber |-> JStr("AA1"), price |-> JNum(300)])
HotelRecord == JDict([pricePerNight |-> JNum(120), name |-> JStr("Ritz")])
PlainRecord == JDict([name |-> JStr("Louvre")])
JsonTexts ==
    [x \in {"{\"data\": [{\"flightNumber\": \"AA1\", \"price\": 300}]}",
            "{\"data\": [{\"pricePerNight\": 120, \"name\": \"Ritz\"}]}",
            "{\"note\": \"no data\"}",
            "{\"data\": []}",
            "{\"data\": [{\"name\": \"Louvre\"}]}",
            "[\"data\"]",
            "\"some data\"",
            "42"} |->
        CASE x = "{\"data\": [{\"flightNumber\": \"AA1\", \"price\": 300}]}"
                -> JDict([data |-> JList(<<FlightRecord>>)])
          [] x = "{\"data\": [{\"pricePerNight\": 120, \"name\": \"Ritz\"}]}"
                -> JDict([data |-> JList(<<HotelRecord>>)])
          [] x = "{\"note\": \"no data\"}" -> JDict([note |-> JStr("no data")])
          [] x = "{\"data\": []}" -> JDict([data |-> JList(<<>>)])
          [] x = "{\"data\": [{\"name\": \"Louvre\"}]}"
                -> JDict([data |-> JList(<<PlainRecord>>)])
          [] x = "[\"data\"]" -> JList(<<JStr("data")>>)
          [] x = "\"some data\"" -> JStr("some data")
          [] OTHER -> JNum(42)]

\* _is_json_string
IsJsonString(text) == text \in DOMAIN JsonTexts
\* json.loads
JsonLoads(text) == JsonTexts[text]

\* "'data' in x" for the parsed value x: a key of a dict, an element of a list,
\* a substring of a str; any other value raises TypeError ("raises")
ContainsData(x) ==
    CASE x.t = "dict" -> IF "data" \in DOMAIN x.v THEN "yes" ELSE "no"
      [] x.t = "list" -> IF \E i \in 1..Len(x.v) : x.v[i].t = "str" /\ x.v[i].v = "data"
                         THEN "yes" ELSE "no"
      [] x.t = "str" -> IF x.v \in {"data", "some data"} THEN "yes" ELSE "no"
      [] OTHER -> "raises"

\* an inference that looks for the nightly price first
WithDataTypeHotelsFirst(d, items) ==
    IF Truthy(items) /\ items.t = "list" /\ Len(items.v) > 0 /\ items.v[1].t = "dict"
    THEN IF "pricePerNight" \in DOMAIN items.v[1].v
         THEN DictSet(d, "data_type", JStr("hotels"))
         ELSE IF "flightNumber" \in DOMAIN items.v[1].v
              THEN DictSet(d, "data_type", JStr("flights"))
              ELSE d
    ELSE d

\* lines 221-228, 244-251, 312-319: the data type read off the first record
WithDataType(d, items) ==
    IF Truthy(items) /\ items.t = "list" /\ Len(items.v) > 0 /\ items.v[1].t = "dict"
    THEN IF "flightNumber" \in DOMAIN items.v[1].v
         THEN DictSet(d, "data_type", JStr("flights"))
         ELSE IF "pricePerNight" \in DOMAIN items.v[1].v
              THEN DictSet(d, "data_type", JStr("hotels"))
              ELSE d
    ELSE d

\* lines 217-218, 241-242, 308-309
MarkStructured(d, payload) ==
    DictSet(DictSet(d, "structured_data", payload), "type", JStr("structured_response"))

\* lines 233-253: the loop over the parts; an exception that is not a
\* JSONDecodeError ends the loop and leaves _check_for_structured_data with
\* the event dict as it is by then
RECURSIVE ScanParts(_, _)
ScanParts(parts, d) ==
    IF Len(parts) = 0 THEN d
    ELSE LET part == Head(parts) IN
         IF part.t = "dict" /\ "text" \in DOMAIN part.v
            /\ part.v["text"].t = "str" /\ IsJsonString(part.v["text"].v)
         THEN LET sd == JsonLoads(part.v["text"].v)
                  has == ContainsData(sd) IN
              IF has = "raises" THEN d
              ELSE IF has = "no" THEN ScanParts(Tail(parts), d)
              ELSE IF sd.t # "dict" THEN MarkStructured(d, sd)
              ELSE ScanParts(Tail(parts), WithDataType(MarkStructured(d, sd), sd.v["data"]))
         ELSE ScanParts(Tail(parts), d)

\* _check_for_structured_data
CheckForStructuredData(content, d) ==
    IF content.t = "dict" /\ "data" \in DOMAIN content.v
    THEN WithDataType(MarkStructured(d, content), content.v["data"])
    ELSE IF content.t = "dict" /\ "parts" \in DOMAIN content.v
         THEN IF content.v["parts"].t = "list" THEN ScanParts(content.v["parts"].v, d)
              ELSE d
         ELSE d

\* lines 259-263
EventDefaults(t) ==
    [timestamp |-> JStr(IsoFormat(t)), author |-> JStr("system"), type |-> JStr("agent_message")]

\* "hasattr(event, name) and event.name": the attribute is there and truthy
Present(attr) == attr.k = "val" /\ Truthy(attr.v)

\* lines 266-282: author, timestamp and content, in one try block
BasicProperties(ev, d) ==
    IF ev.author.k = "raises" THEN d
    ELSE LET d1 == IF Present(ev.author) THEN DictSet(d, "author", ev.author.v) ELSE d IN
         IF ev.timestamp.k = "raises" THEN d1
         ELSE LET d2 == IF Present(ev.timestamp)
                        THEN DictSet(d1, "timestamp", ev.timestamp.v) ELSE d1 IN
              IF ev.content.k = "raises" THEN d2
              ELSE IF Present(ev.content)
                   THEN LET content == MakeJsonSerializable(ev.content.v) IN
                        CheckForStructuredData(content, DictSet(d2, "content", content))
                   ELSE d2

\* lines 285-292: get_function_calls()
FunctionCalls(ev, d) ==
    IF Present(ev.calls)
    THEN DictSet(DictSet(d, "function_calls", MakeJsonSerializable(ev.calls.v)),
                 "type", JStr("function_call"))
    ELSE d

\* lines 303-319: the loop over the serialized function responses
RECURSIVE ScanResponses(_, _)
ScanResponses(resps, d) ==
    IF Len(resps) = 0 THEN d
    ELSE LET r == Head(resps) IN
         IF r.t = "dict" /\ "response" \in DOMAIN r.v
            /\ r.v["response"].t = "dict" /\ "data" \in DOMAIN r.v["response"].v
         THEN ScanResponses(Tail(resps),
                  WithDataType(MarkStructured(d, r.v["response"]),
                               r.v["response"].v["data"]))
         ELSE ScanResponses(Tail(resps), d)

\* lines 294-321: get_function_responses()
FunctionResponses(ev, d) ==
    IF Present(ev.resps)
    THEN LET ser == MakeJsonSerializable(ev.resps.v)
             d1 == DictSet(DictSet(d, "function_responses", ser),
                           "type", JStr("function_response")) IN
         IF ser.t = "list" THEN ScanResponses(ser.v, d1) ELSE d1
    ELSE d

\* a finality step that clears what classification attached
FinalResponseDropsData(ev, d) ==
    IF Present(ev.final)
    THEN LET d1 == DictSet(DictSet(d, "type", JStr("final_response")), "final", JBool(TRUE)) IN
         [k \in DOMAIN d1 \ {"structured_data", "data_type"} |-> d1[k]]
    ELSE d

\* lines 323-329: is_final_response()
FinalResponse(ev, d) ==
    IF Present(ev.final)
    THEN DictSet(DictSet(d, "type", JStr("final_response")), "final", JBool(TRUE))
    ELSE d

\* an error step that gives way to a final response
ErrorMessageUnlessFinal(ev, d) ==
    IF Present(ev.error) /\ ~Present(ev.final)
    THEN DictSet(DictSet(DictSet(d, "error", JBool(TRUE)), "message", ev.error.v),
                 "type", JStr("error"))
    ELSE d

\* lines 332-338: error_message
ErrorMessage(ev, d) ==
    IF Present(ev.error)
    THEN DictSet(DictSet(DictSet(d, "error", JBool(TRUE)), "message", ev.error.v),
                 "type", JStr("error"))
    ELSE d

\* lines 341-348: partial and turn_complete, in one try block
Metadata(ev, d) ==
    IF ev.partial.k = "raises" THEN d
    ELSE LET d1 == IF Present(ev.partial) THEN DictSet(d, "partial", JBool(TRUE)) ELSE d IN
         IF Present(ev.turn_complete) THEN DictSet(d1, "turn_complete", JBool(TRUE)) ELSE d1

\* _convert_adk_event_to_dict, at clock tick t
ConvertEvent(ev, t) ==
    LET d == Metadata(ev, ErrorMessage(ev, FinalResponse(ev, FunctionResponses(ev,
                 FunctionCalls(ev, BasicProperties(ev, EventDefaults(t))))))) IN
    [k \in DOMAIN d |-> MakeJsonSerializable(d[k])]

(***************************************************************************)
(* send_message: an async generator.  Its consumer asks for the next wire  *)
(* event; the generator runs to its next yield or to its end.  The native  *)
(* stream of the turn is chosen when the runtime is contacted: the events  *)
(* it will deliver, and whether it then ends or raises.                    *)
(***************************************************************************)
\* native events of a turn
MaxStream == 2
\* events the runtime records in one session's history
MaxHistory == 1

NativeEvent(author, content, calls, final) ==
    [author |-> author, timestamp |-> Absent, content |-> content, calls |-> calls,
     resps |-> Val(JList(<<>>)), final |-> Val(JBool(final)), error |-> Absent,
     partial |-> Absent, turn_complete |-> Absent]
TextContent(text) ==
    PyModel([role |-> JStr("model"), parts |-> JList(<<JDict([text |-> JStr(text)])>>)])
\* the native events the turns of the model deliver
EvText == NativeEvent(Val(JStr("planner")), Val(TextContent("Hello")), Val(JList(<<>>)), FALSE)
EvFlights ==
    NativeEvent(Val(JStr("flight_agent")),
                Val(TextContent("{\"data\": [{\"flightNumber\": \"AA1\", \"price\": 300}]}")),
                Val(JList(<<>>)), FALSE)
EvCall ==
    NativeEvent(Val(JStr("planner")), Absent,
                Val(JList(<<PyModel([name |-> JStr("search_flights")])>>)), FALSE)
EvFinal == NativeEvent(Absent, Val(TextContent("Done")), Val(JList(<<>>)), TRUE)
NativeSamples == {EvText, EvFlights, EvFinal}
NativeStreams == UNION {[1..n -> NativeSamples] : n \in 0..MaxStream}

\* line 130: the event is a structured response that carries its data
IsStructured(wire) ==
    wire["type"].v = "structured_response" /\ "structured_data" \in DOMAIN wire

\* lines 134-138: whether the translated event is yielded as it arrives
YieldsNowStructured(so, wire) == wire["type"].v = "structured_response"
YieldsNow(so, wire) == IF so THEN wire["type"].v = "structured_response" ELSE TRUE

\* lines 151-157: the content of the latest recorded event, dumped
DumpContent(attr) ==
    IF attr.k = "val" /\ attr.v.t = "model" THEN JDict(attr.v.v)
    ELSE IF attr.k = "val" THEN JStr(attr.v.v) ELSE JStr("None")

\* lines 159-164
FallbackEvent(latest, t) ==
    [type |-> JStr("agent_message"), author |-> JStr("root_agent"),
     content |-> DumpContent(latest.content), timestamp |-> JStr(IsoFormat(t))]

\* line 146: "if not events"
TakesFallbackAlways(events) == TRUE
TakesFallback(events) == Len(events) = 0

\* the handler's event without its error marking
ErrorEventUnflagged(t) ==
    [type |-> JStr("agent_message"), message |-> JStr("Agent execution error: runtime failure"),
     author |-> JStr("system"), timestamp |-> JStr(IsoFormat(t))]

\* lines 168-174
ErrorEvent(t) ==
    [type |-> JStr("error"), error |-> JBool(TRUE),
     message |-> JStr("Agent execution error: runtime failure"),
     author |-> JStr("system"), timestamp |-> JStr(IsoFormat(t))]

\* send_message with the registration checked inside the try block
SendStartInTry(p, u, key, so, stream, ends) ==
    /\ pc[p] = "idle"
    /\ turn.pc \in {"none", "done", "failed"}
    /\ IF key \notin DOMAIN sessions
       THEN /\ emitted' = <<ErrorEvent(now)>>
            /\ turn' = [pc |-> "done", proc |-> p, key |-> key, so |-> so, ran |-> FALSE]
            /\ last' = [op |-> "send", step |-> "start", proc |-> p, key |-> key,
                        arg |-> so, known |-> FALSE, out |-> "returned", val |-> None]
       ELSE /\ emitted' = <<>>
            /\ turn' = [pc |-> "running", proc |-> p, key |-> key, so |-> so, ran |-> TRUE,
                        session |-> sessions[key], given |-> stream, ends |-> ends,
                        stream |-> stream, events |-> <<>>, found |-> <<>>]
            /\ last' = [op |-> "send", step |-> "start", proc |-> p, key |-> key,
                        arg |-> so, known |-> TRUE, out |-> "awaiting", val |-> None]
    /\ UNCHANGED <<regVars, stVars, convVars, callVars>>

\* The consumer asks for the first event: lines 104-124 run, up to the await of
\* the first native event, with the runtime contacted; on an unregistered key
\* line 105 raises instead, outside the try block.
SendStart(p, u, key, so, stream, ends) ==
    /\ pc[p] = "idle"
    /\ turn.pc \in {"none", "done", "failed"}
    /\ emitted' = <<>>
    /\ IF key \notin DOMAIN sessions
       THEN /\ turn' = [pc |-> "failed", proc |-> p, key |-> key, so |-> so, ran |-> FALSE]
            /\ last' = [op |-> "send", step |-> "start", proc |-> p, key |-> key,
                        arg |-> so, known |-> FALSE, out |-> SessionNotFound, val |-> None]
       ELSE /\ turn' = [pc |-> "running", proc |-> p, key |-> key, so |-> so, ran |-> TRUE,
                        session |-> sessions[key], given |-> stream, ends |-> ends,
                        stream |-> stream, events |-> <<>>, found |-> <<>>]
            /\ last' = [op |-> "send", step |-> "start", proc |-> p, key |-> key,
                        arg |-> so, known |-> TRUE, out |-> "awaiting", val |-> None]
    /\ UNCHANGED <<regVars, stVars, convVars, callVars>>

\* The runtime delivers the next native event, having recorded it in the
\* session's history or not (rec); lines 126-138 translate it, remember it and
\* yield it or go on to the next one.
SendPull(rec) ==
    /\ turn.pc = "running"
    /\ Len(turn.stream) > 0
    /\ LET ev == Head(turn.stream)
           wire == ConvertEvent(ev, now) IN
       /\ turn' = [turn EXCEPT !.stream = Tail(@),
                               !.events = Append(@, wire),
                               !.found = IF IsStructured(wire) THEN <<wire>> ELSE @]
       /\ emitted' = IF YieldsNow(turn.so, wire) THEN Append(emitted, wire) ELSE emitted
       /\ IF rec
          THEN /\ Len(history[turn.session]) < MaxHistory
               /\ history' = [history EXCEPT ![turn.session] = Append(@, ev)]
          ELSE UNCHANGED history
    /\ last' = [op |-> "send", step |-> "pull", proc |-> turn.proc, key |-> turn.key,
                arg |-> turn.so, known |-> TRUE, out |-> "awaiting", val |-> None]
    /\ UNCHANGED <<regVars, state, cells, nextCell, snap, convVars, callVars>>

\* The native stream ends: lines 140-165 yield the remembered structured
\* event, or the fallback event, or nothing, and the generator finishes.
SendEnd ==
    /\ turn.pc = "running"
    /\ Len(turn.stream) = 0
    /\ turn.ends = "ok"
    /\ LET hist == history[turn.session] IN
       emitted' =
           IF turn.so /\ Len(turn.found) > 0 THEN Append(emitted, turn.found[1])
           ELSE IF TakesFallback(turn.events) /\ Len(hist) > 0
                THEN Append(emitted, FallbackEvent(hist[Len(hist)], now))
                ELSE emitted
    /\ turn' = [turn EXCEPT !.pc = "done"]
    /\ last' = [op |-> "send", step |-> "end", proc |-> turn.proc, key |-> turn.key,
                arg |-> turn.so, known |-> TRUE, out |-> "returned", val |-> None]
    /\ UNCHANGED <<regVars, stVars, convVars, callVars>>

\* The runtime raises instead of delivering a next event: lines 167-175 yield
\* the error event and the generator finishes.
SendRaise ==
    /\ turn.pc = "running"
    /\ Len(turn.stream) = 0
    /\ turn.ends = "raises"
    /\ emitted' = Append(emitted, ErrorEvent(now))
    /\ turn' = [turn EXCEPT !.pc = "done"]
    /\ last' = [op |-> "send", step |-> "raise", proc |-> turn.proc, key |-> turn.key,
                arg |-> turn.so, known |-> TRUE, out |-> "returned", val |-> None]
    /\ UNCHANGED <<regVars, stVars, convVars, callVars>>

(***************************************************************************)
(* The frames of the /chat route, routes/travel_planner.py lines 105-142:  *)
(* generate_events wraps the generator of send_message, called without     *)
(* structured_only.  A frame is the text "data: <json>" followed by an     *)
(* empty line; it is modelled by the value the json text encodes.          *)
(***************************************************************************)
\* lines 110-115
ConnectionFrame(key) ==
    [data |-> JDict([type |-> JStr("connection_established"),
                     message |-> JStr("Connected to travel planner"),
                     session_id |-> JStr(key)])]
\* lines 122-124
EventFrame(ev) == [data |-> JDict(ev)]
\* lines 127-131
CompletionFrame ==
    [data |-> JDict([type |-> JStr("stream_complete"), message |-> JStr("Response completed")])]
\* lines 133-141: the frame of an exception that left send_message
RouteErrorFrame(key) ==
    [data |-> JDict([error |-> JBool(TRUE), type |-> JStr("error"),
                     message |-> JStr("Session " \o key \o " not found"),
                     author |-> JStr("system")])]

\* the frames generate_events has produced for the current turn
ChatFrames ==
    IF turn.pc = "none" THEN <<>>
    ELSE IF turn.pc = "failed" THEN <<ConnectionFrame(turn.key), RouteErrorFrame(turn.key)>>
    ELSE <<ConnectionFrame(turn.key)>>
         \o [i \in 1..Len(emitted) |-> EventFrame(emitted[i])]
         \o (IF turn.pc = "done" THEN <<CompletionFrame>> ELSE <<>>)

(***************************************************************************)
(* SpecSend: chat turns of one handler, on a key that is registered or not.*)
(***************************************************************************)
\* One session is created (the first native session the runtime hands out);
\* after its cleanup the key stays unregistered.
NextSend ==
    \/ CreateOrGetKnown(StateProc, StateUser, StateKey)
    \/ nextHandle = 1 /\ CreateOrGetCall(StateProc, StateUser, StateKey)
    \/ CreateOrGetResume(StateProc)
    \/ \E key \in ExplicitIds : CleanupSession(StateProc, key)
    \/ \E key \in ExplicitIds, so \in BOOLEAN, stream \in NativeStreams,
          ends \in {"ok", "raises"} :
          SendStart(StateProc, StateUser, key, so, stream, ends)
    \/ \E rec \in BOOLEAN : SendPull(rec)
    \/ SendEnd
    \/ SendRaise

SpecSend == Init /\ [][NextSend]_vars

(***************************************************************************)
(* SpecStructured: the same turns over streams that may hold two different *)
(* structured events.                                                      *)
(***************************************************************************)
EvHotels ==
    NativeEvent(Val(JStr("hotel_agent")),
                Val(TextContent("{\"data\": [{\"pricePerNight\": 120, \"name\": \"Ritz\"}]}")),
                Val(JList(<<>>)), FALSE)
\* a final event whose content is the flights payload
EvFinalFlights ==
    NativeEvent(Val(JStr("flight_agent")),
                Val(TextContent("{\"data\": [{\"flightNumber\": \"AA1\", \"price\": 300}]}")),
                Val(JList(<<>>)), TRUE)
StructuredSamples == {EvText, EvFlights, EvHotels, EvFinalFlights}
StructuredStreams == UNION {[1..n -> StructuredSamples] : n \in 0..MaxStream}

\* routes/travel_planner.py lines 185-212: the /chat-structured route stops
\* at the first event of type structured_response that has structured_data
\* and reports success when that data is truthy
ChatStructuredSuccess ==
    \E i \in 1..Len(emitted) :
       /\ emitted[i]["type"].v = "structured_response"
       /\ "structured_data" \in DOMAIN emitted[i]
       /\ \A j \in 1..(i - 1) : ~(/\ emitted[j]["type"].v = "structured_response"
                                   /\ "structured_data" \in DOMAIN emitted[j])
       /\ Truthy(emitted[i]["structured_data"])

NextStructured ==
    \/ CreateOrGetKnown(StateProc, StateUser, StateKey)
    \/ nextHandle = 1 /\ CreateOrGetCall(StateProc, StateUser, StateKey)
    \/ CreateOrGetResume(StateProc)
    \/ \E key \in ExplicitIds : CleanupSession(StateProc, key)
    \/ \E key \in ExplicitIds, so \in BOOLEAN, stream \in StructuredStreams,
          ends \in {"ok", "raises"} :
          SendStart(StateProc, StateUser, key, so, stream, ends)
    \/ \E rec \in BOOLEAN : SendPull(rec)
    \/ SendEnd
    \/ SendRaise

SpecStructured == Init /\ [][NextStructured]_vars

(***************************************************************************)
(* SpecConvert: _convert_adk_event_to_dict on native events whose          *)
(* capabilities are each absent (or falsy), failing when read, or present. *)
(***************************************************************************)
ConvAuthors == {Absent, Raises, Val(JStr("planner"))}
\* a timestamp is a primitive, or an object such as a datetime
ConvTimestamps == {Absent, Raises, Val(JStr("1767261600.5")), Val(PyObject("2026-01-01 10:00:00"))}
ConvContents ==
    {Absent, Raises, Val(TextContent("Hello")),
     Val(TextContent("{\"data\": [{\"flightNumber\": \"AA1\", \"price\": 300}]}")),
     Val(PyModel([role |-> JStr("model"), blob |-> PyObject("<blob>")]))}
ConvCalls ==
    {Val(JList(<<>>)), Raises, Val(JList(<<PyModel([name |-> JStr("search_flights")])>>))}
ConvResponses ==
    {Val(JList(<<>>)), Raises,
     Val(JList(<<PyModel([name |-> JStr("search_hotels"),
                          response |-> JDict([data |-> JList(<<HotelRecord>>)])])>>))}
ConvFinals == {Val(JBool(FALSE)), Val(JBool(TRUE)), Raises}
ConvErrors == {Absent, Raises, Val(JStr("quota exceeded"))}
ConvFlags == {Absent, Raises, Val(JBool(TRUE))}
ConvEvents ==
    [author : ConvAuthors, timestamp : ConvTimestamps, content : ConvContents,
     calls : ConvCalls, resps : ConvResponses, final : ConvFinals, error : ConvErrors,
     partial : ConvFlags, turn_complete : ConvFlags]

InitConvert ==
    /\ now = 0
    /\ sessions = EmptyDict
    /\ runners = EmptyDict
    /\ rtStore = EmptyDict
    /\ nextHandle = 1
    /\ rtLog = <<>>
    /\ pc = [p \in Procs |-> "idle"]
    /\ local = [p \in Procs |-> None]
    /\ last = NoOp("start")
    /\ state = EmptyDict
    /\ cells = EmptyDict
    /\ nextCell = 1
    /\ history = EmptyDict
    /\ snap = NoSnap
    /\ turn = NoTurn
    /\ emitted = <<>>
    /\ convIn \in ConvEvents
    /\ convOut = NoWire
    /\ callIn = NoCall
    /\ callOut = None

\* line 126: the translator is called on the event and returns
Translate ==
    /\ last.op # "convert"
    /\ convOut' = ConvertEvent(convIn, now)
    /\ last' = NoOp("convert")
    /\ UNCHANGED <<regVars, stVars, sendVars, convIn, callVars>>

NextConvert == Translate

SpecConvert == InitConvert /\ [][NextConvert]_vars

(***************************************************************************)
(* SpecClassify: the translator on events that differ in what their        *)
(* content and their function responses carry.                             *)
(***************************************************************************)
\* a record with both marker fields
BothRecord == JDict([flightNumber |-> JStr("BA2"), pricePerNight |-> JNum(90)])
\* a content of two text parts
TwoParts(first, second) ==
    PyModel([role |-> JStr("model"),
             parts |-> JList(<<JDict([text |-> JStr(first)]), JDict([text |-> JStr(second)])>>)])
\* a content object whose dump is a mapping with a data key
DataContent(data) == PyModel([data |-> data])
ClassifyContents ==
    <<TextContent("Hello"),
      TextContent("{\"data\": [{\"flightNumber\": \"AA1\", \"price\": 300}]}"),
      TextContent("{\"data\": [{\"pricePerNight\": 120, \"name\": \"Ritz\"}]}"),
      TextContent("{\"data\": [{\"name\": \"Louvre\"}]}"),
      TextContent("{\"note\": \"no data\"}"),
      TextContent("{\"data\": []}"),
      TextContent("[\"data\"]"),
      TextContent("\"some data\""),
      TextContent("42"),
      TwoParts("{\"data\": [{\"flightNumber\": \"AA1\", \"price\": 300}]}",
               "{\"data\": [{\"name\": \"Louvre\"}]}"),
      DataContent(JList(<<FlightRecord>>)),
      DataContent(JList(<<BothRecord>>)),
      DataContent(JList(<<PlainRecord, FlightRecord>>)),
      DataContent(JList(<<HotelRecord, FlightRecord>>)),
      DataContent(JList(<<>>)),
      DataContent(JStr("n/a")),
      DataContent(JList(<<JStr("AA1")>>))>>
\* a function response of a tool, with its payload
ToolResponse(payload) == PyModel([name |-> JStr("search"), response |-> payload])
ClassifyResponses ==
    <<JList(<<>>),
      JList(<<ToolResponse(JDict([data |-> JList(<<HotelRecord>>)]))>>),
      JList(<<ToolResponse(JDict([data |-> JList(<<FlightRecord>>)]))>>),
      JList(<<ToolResponse(JDict([data |-> JList(<<PlainRecord>>)]))>>),
      JList(<<ToolResponse(JDict([data |-> JList(<<>>)]))>>),
      JList(<<ToolResponse(JDict([status |-> JStr("ok")]))>>)>>
ClassifyCalls ==
    <<JList(<<>>), JList(<<PyModel([name |-> JStr("search_flights")])>>)>>

InitClassify ==
    /\ now = 0
    /\ sessions = EmptyDict
    /\ runners = EmptyDict
    /\ rtStore = EmptyDict
    /\ nextHandle = 1
    /\ rtLog = <<>>
    /\ pc = [p \in Procs |-> "idle"]
    /\ local = [p \in Procs |-> None]
    /\ last = NoOp("start")
    /\ state = EmptyDict
    /\ cells = EmptyDict
    /\ nextCell = 1
    /\ history = EmptyDict
    /\ snap = NoSnap
    /\ turn = NoTurn
    /\ emitted = <<>>
    /\ \E i \in 1..Len(ClassifyContents), j \in 1..Len(ClassifyResponses),
          c \in 1..Len(ClassifyCalls), fin \in BOOLEAN :
          convIn = [author |-> Val(JStr("planner")), timestamp |-> Absent,
                    content |-> Val(ClassifyContents[i]), calls |-> Val(ClassifyCalls[c]),
                    resps |-> Val(ClassifyResponses[j]), final |-> Val(JBool(fin)),
                    error |-> Absent, partial |-> Absent, turn_complete |-> Absent]
    /\ convOut = NoWire
    /\ callIn = NoCall
    /\ callOut = None

SpecClassify == InitClassify /\ [][NextConvert]_vars

(***************************************************************************)
(* The keyword classification of a user message, response_parser.py.       *)
(* A string is a sequence of one-character strings, so that containment    *)
(* and case folding are computed.                                          *)
(***************************************************************************)
\* the letters str.lower changes, among the letters of the inputs
UpperCase == [A |-> "a", B |-> "b", F |-> "f", I |-> "i", M |-> "m", O |-> "o", R |-> "r"]

\* str.lower
Lower(s) == [i \in 1..Len(s) |-> IF s[i] \in DOMAIN UpperCase THEN UpperCase[s[i]] ELSE s[i]]

\* the operator in between two strings: kw occurs in s
Contains(s, kw) == \E i \in 1..(Len(s) - Len(kw) + 1) : SubSeq(s, i, i + Len(kw) - 1) = kw

\* lines 18-21
flight_keywords ==
    << <<"f", "l", "i", "g", "h", "t">>,
       <<"f", "l", "i", "g", "h", "t", "s">>,
       <<"f", "l", "y">>,
       <<"f", "l", "y", "i", "n", "g">>,
       <<"a", "i", "r", "l", "i", "n", "e">>,
       <<"a", "i", "r", "p", "l", "a", "n", "e">>,
       <<"b", "o", "o", "k", " ", "f", "l", "i", "g", "h", "t">>,
       <<"f", "l", "i", "g", "h", "t", " ", "s", "e", "a", "r", "c", "h">>,
       <<"f", "l", "i", "g", "h", "t", " ", "d", "e", "a", "l", "s">>,
       <<"a", "i", "r", "f", "a", "r", "e">>,
       <<"p", "l", "a", "n", "e", " ", "t", "i", "c", "k", "e", "t">> >>

\* lines 22-24
hotel_keywords ==
    << <<"h", "o", "t", "e", "l">>,
       <<"h", "o", "t", "e", "l", "s">>,
       <<"a", "c", "c", "o", "m", "m", "o", "d", "a", "t", "i", "o", "n">>,
       <<"s", "t", "a", "y">>,
       <<"r", "o", "o", "m">>,
       <<"b", "o", "o", "k", "i", "n", "g">>,
       <<"l", "o", "d", "g", "e">>,
       <<"r", "e", "s", "o", "r", "t">> >>

\* lines 25-27
itinerary_keywords ==
    << <<"i", "t", "i", "n", "e", "r", "a", "r", "y">>,
       <<"p", "l", "a", "n">>,
       <<"s", "c", "h", "e", "d", "u", "l", "e">>,
       <<"t", "r", "i", "p", " ", "p", "l", "a", "n">>,
       <<"t", "r", "a", "v", "e", "l", " ", "p", "l", "a", "n">>,
       <<"d", "a", "y", " ", "b", "y", " ", "d", "a", "y">> >>

\* any(keyword in message_lower for keyword in keywords)
AnyKeywordIn(keywords, message_lower) ==
    \E k \in 1..Len(keywords) : Contains(message_lower, keywords[k])

\* lines 49-56: the agent name as a second signal; a name that is None or
\* empty is not looked at
AgentHint(agent_name) ==
    IF agent_name.given /\ Len(agent_name.name) > 0
    THEN LET agent_lower == Lower(agent_name.name) IN
         IF Contains(agent_lower, <<"f","l","i","g","h","t">>) THEN "flight"
         ELSE IF Contains(agent_lower, <<"h","o","t","e","l">>) THEN "hotel"
         ELSE IF Contains(agent_lower, <<"i","t","i","n","e","r","a","r","y">>) THEN "itinerary"
         ELSE None
    ELSE None

\* a classification that looks for hotel keywords first
ShouldReturnStructuredDataHotelFirst(message, agent_name) ==
    LET message_lower == Lower(message) IN
    IF AnyKeywordIn(hotel_keywords, message_lower) THEN "hotel"
    ELSE IF AnyKeywordIn(flight_keywords, message_lower) THEN "flight"
    ELSE IF AnyKeywordIn(itinerary_keywords, message_lower) THEN "itinerary"
    ELSE AgentHint(agent_name)

\* should_return_structured_data, lines 29-58
ShouldReturnStructuredData(message, agent_name) ==
    LET message_lower == Lower(message) IN
    IF AnyKeywordIn(flight_keywords, message_lower) THEN "flight"
    ELSE IF AnyKeywordIn(hotel_keywords, message_lower) THEN "hotel"
    ELSE IF AnyKeywordIn(itinerary_keywords, message_lower) THEN "itinerary"
    ELSE AgentHint(agent_name)

\* the most phrases a message is put together from
MaxWords == 2

\* the phrases messages are put together from
Phrases ==
    << <<"f", "i", "n", "d", " ", "m", "e", " ", "f", "l", "i", "g", "h", "t", "s", " ", "a", "n", "d", " ", "h", "o", "t", "e", "l", "s">>,
       <<"B", "o", "o", "k", " ", "a", " ", "R", "O", "O", "M">>,
       <<"m", "y", " ", "I", "t", "i", "n", "e", "r", "a", "r", "y">>,
       <<"b", "u", "t", "t", "e", "r", "f", "l", "y">>,
       <<"h", "i">>,
       <<"R", "e", "s", "o", "r", "t", " ", "p", "l", "a", "n">>,
       <<"A", "i", "r", "f", "a", "r", "e">> >>

\* the messages of at most n phrases, separated by blanks
RECURSIVE MessagesOf(_)
MessagesOf(n) ==
    IF n = 0 THEN {<<>>}
    ELSE LET shorter == MessagesOf(n - 1) IN
         shorter \cup {Phrases[i] : i \in 1..Len(Phrases)}
                 \cup {m \o <<" ">> \o Phrases[i] : m \in shorter \ {<<>>}, i \in 1..Len(Phrases)}

\* the agent names given with a message: none, the empty name, and names
NoAgent == [given |-> FALSE, name |-> <<>>]
Agent(name) == [given |-> TRUE, name |-> name]
AgentNames ==
    {NoAgent, Agent(<<>>),
     Agent(<<"F", "l", "i", "g", "h", "t", "A", "g", "e", "n", "t">>),
     Agent(<<"h", "o", "t", "e", "l", "_", "a", "g", "e", "n", "t">>),
     Agent(<<"I", "t", "i", "n", "e", "r", "a", "r", "y">>),
     Agent(<<"r", "o", "o", "t">>)}

InitIntent ==
    /\ now = 0
    /\ sessions = EmptyDict
    /\ runners = EmptyDict
    /\ rtStore = EmptyDict
    /\ nextHandle = 1
    /\ rtLog = <<>>
    /\ pc = [p \in Procs |-> "idle"]
    /\ local = [p \in Procs |-> None]
    /\ last = NoOp("start")
    /\ state = EmptyDict
    /\ cells = EmptyDict
    /\ nextCell = 1
    /\ history = EmptyDict
    /\ snap = NoSnap
    /\ turn = NoTurn
    /\ emitted = <<>>
    /\ convIn = NoEvent
    /\ convOut = NoWire
    /\ \E m \in MessagesOf(MaxWords), a \in AgentNames :
          callIn = [called |-> TRUE, message |-> m, agent_name |-> a]
    /\ callOut = None

\* one call of should_return_structured_data on the drawn arguments
ClassifyIntent ==
    /\ last.op # "intent"
    /\ callOut' = ShouldReturnStructuredData(callIn.message, callIn.agent_name)
    /\ last' = NoOp("intent")
    /\ UNCHANGED <<regVars, stVars, sendVars, convVars, callIn>>

NextIntent == ClassifyIntent

SpecIntent == InitIntent /\ [][NextIntent]_vars

(***************************************************************************)
(* SpecItinerary: _convert_itinerary_to_trip_data on itineraries of up to  *)
(* MaxDays days.                                                           *)
(***************************************************************************)
\* the most days of an itinerary
MaxDays == 2

\* the days an itinerary is put together from: events of the three types
\* with repeated, empty and missing values, fields that belong to another
\* type, an event without type and a day without events
ItineraryDays ==
    << DayOne,
       [events |-> <<[event_type |-> "hotel", room_selection |-> "Deluxe"],
                     [event_type |-> "hotel", room_selection |-> "Suite"]>>],
       [events |-> <<[event_type |-> "visit", description |-> "Museum", room_selection |-> "Penthouse"],
                     [event_type |-> "transportation", type |-> "train"]>>],
       [events |-> <<[event_type |-> "hotel", room_selection |-> ""],
                     [event_type |-> "visit"]>>],
       [events |-> <<[event_type |-> "transportation", type |-> "bus"],
                     [event_type |-> "transportation", type |-> "train"],
                     [event_type |-> "hotel", type |-> "hostel", description |-> "Old town"]>>],
       [date |-> "2026-01-02"],
       [events |-> <<[description |-> "Walk", type |-> "foot"]>>],
       [events |-> <<[event_type |-> "visit", description |-> "Park"],
                     [event_type |-> "visit", description |-> "Museum"],
                     [event_type |-> "hotel", room_selection |-> "Suite"]>>] >>

\* the day lists of at most n days
RECURSIVE DayLists(_)
DayLists(n) ==
    IF n = 0 THEN {<<>>}
    ELSE LET shorter == DayLists(n - 1) IN
         shorter \cup {Append(q, ItineraryDays[i]) : q \in shorter, i \in 1..Len(ItineraryDays)}

InitItinerary ==
    /\ now = 0
    /\ sessions = EmptyDict
    /\ runners = EmptyDict
    /\ rtStore = EmptyDict
    /\ nextHandle = 1
    /\ rtLog = <<>>
    /\ pc = [p \in Procs |-> "idle"]
    /\ local = [p \in Procs |-> None]
    /\ last = NoOp("start")
    /\ state = EmptyDict
    /\ cells = EmptyDict
    /\ nextCell = 1
    /\ history = EmptyDict
    /\ snap = NoSnap
    /\ turn = NoTurn
    /\ emitted = <<>>
    /\ convIn = NoEvent
    /\ convOut = NoWire
    /\ \E days \in DayLists(MaxDays) :
          callIn = [called |-> TRUE, itinerary |-> [destination |-> "Paris", days |-> days]]
    /\ callOut = None

\* one call of _convert_itinerary_to_trip_data on the drawn itinerary
ConvertCall ==
    /\ last.op # "to_trip"
    /\ callOut' = ConvertItinerary(callIn.itinerary)
    /\ last' = NoOp("to_trip")
    /\ UNCHANGED <<regVars, stVars, sendVars, convVars, callIn>>

NextItinerary == ConvertCall

SpecItinerary == InitItinerary /\ [][NextItinerary]_vars

(***************************************************************************)
(* SpecReinit: initialization of sessions that are in use.  It starts with *)
(* two registered sessions: "s1", initialized at tick 0 with an empty      *)
(* profile, and "s2", created and not yet initialized.                     *)
(***************************************************************************)
OtherKey == "s2"

\* routes/travel_planner.py lines 48-71 on a key that is registered:
\* create_or_get_session answers from the registry and changes nothing, then
\* initialize_session_with_user_data runs with the stored profile, to which
\* the route has added the email, and the list of recent trips
CreateSessionRoute(p, u, key, profile, trips) ==
    /\ pc[p] = "idle"
    /\ ~MustCreate(sessions, key)
    /\ "email" \in DOMAIN profile
    /\ ~trips.isNone
    /\ LET h == sessions[key]
           ctx == UserContext(nextCell, now) IN
       /\ nextCell + 1 <= MaxCells
       /\ cells' = DictSet(DictSet(cells, nextCell, BuildUserProfile(profile, trips)),
                           nextCell + 1, EmptyDict)
       /\ nextCell' = nextCell + 2
       /\ state' = [state EXCEPT ![h] = WriteContext(@, ctx)]
       /\ last' = [op |-> "initialize", step |-> "route", proc |-> p, key |-> key,
                   arg |-> [profile |-> profile, trips |-> trips],
                   known |-> TRUE, out |-> "returned",
                   val |-> [status |-> "initialized", user_context |-> ctx]]
    /\ UNCHANGED <<regVars, history, snap, sendVars, convVars, callVars>>

InitReinit ==
    /\ now = 0
    /\ sessions = DictSet(DictSet(EmptyDict, StateKey, 1), OtherKey, 2)
    /\ runners = EmptyDict
    /\ rtStore = DictSet(DictSet(EmptyDict, <<StateUser, StateKey>>, 1),
                         <<StateUser, OtherKey>>, 2)
    /\ nextHandle = 3
    /\ rtLog = <<<<StateUser, StateKey>>, <<StateUser, OtherKey>>>>
    /\ pc = [p \in Procs |-> "idle"]
    /\ local = [p \in Procs |-> None]
    /\ last = NoOp("start")
    /\ state = DictSet(DictSet(EmptyDict, 1, WriteContext(EmptyDict, UserContext(1, 0))),
                       2, EmptyDict)
    /\ cells = DictSet(DictSet(EmptyDict, 1, BuildUserProfile(EmptyDict, NoTrips)),
                       2, EmptyDict)
    /\ nextCell = 3
    /\ history = DictSet(DictSet(EmptyDict, 1, <<>>), 2, <<>>)
    /\ snap = NoSnap
    /\ turn = NoTurn
    /\ emitted = <<>>
    /\ convIn = NoEvent
    /\ convOut = NoWire
    /\ callIn = NoCall
    /\ callOut = None

NextReinit ==
    \/ Tick
    \/ \E key \in ExplicitIds, profile \in StateProfiles :
          InitializeSession(StateProc, StateUser, key, profile, NoTrips)
    \/ \E key \in ExplicitIds, profile \in StateProfiles, trips \in TripInputs :
          CreateSessionRoute(StateProc, StateUser, key, profile, trips)
    \/ \E key \in ExplicitIds : ExtractItinerary(StateProc, StateUser, key)
    \/ \E h \in DOMAIN state, it \in RuntimeItineraries : RuntimeMutateItinerary(h, it)
    \/ \E h \in DOMAIN state : RuntimeSetNote(h)

SpecReinit == InitReinit /\ [][NextReinit]_vars

(***************************************************************************)
(* Claims about the registry, checked under Spec.                          *)
(***************************************************************************)
\* the step just taken is a call of create_or_get_session on a key that was
\* registered when the call began
C1_KnownKeyCall ==
    /\ last'.op = "create_or_get"
    /\ last'.step \in {"known", "call"}
    /\ last'.key \in DOMAIN sessions

\* C1: a call of create_or_get_session on a registered key returns that key's
\* session id (the explicit session_id argument itself when one was given),
\* sends the runtime no create_session call and leaves the registry, and so
\* the native handle registered for the key, as it was.
C1_IdempotentKnownKey ==
    [][C1_KnownKeyCall =>
          /\ last'.out = "returned"
          /\ last'.val.id = last'.key
          /\ (last'.arg # NoId => last'.val.id = last'.arg)
          /\ rtLog' = rtLog
          /\ rtStore' = rtStore
          /\ sessions' = sessions]_vars

\* a second create_or_get_session call on an explicit, registered key has
\* returned, after exactly one create_session call to the runtime
C1_Witness ==
    /\ last.op = "create_or_get"
    /\ last.step = "known"
    /\ last.arg \in ExplicitIds
    /\ last.key \in DOMAIN sessions
    /\ Len(rtLog) = 1

\* no two handlers are suspended in create_session for the same key
C2_NoOverlappingCreate ==
    \A p, q \in Procs :
        (p # q /\ pc[p] = "await_create" /\ pc[q] = "await_create")
            => local[p].key # local[q].key

\* a step leaves the handle of every key that stays registered as it was
C2_HandleKept ==
    \A k \in DOMAIN sessions : k \in DOMAIN sessions' => sessions'[k] = sessions[k]

\* C2 (as claimed): under every interleaving the runtime is asked at most once
\* by overlapping create_or_get_session calls with the same unknown key, and
\* the handle registered for a key is never replaced by a second one.
C2_AtMostOneHandle == []C2_NoOverlappingCreate /\ [][C2_HandleKept]_vars

\* C3 (as claimed): a create_or_get_session call without a session_id obtains
\* a key of its own and registers its own native session: the key it
\* synthesizes is never one that is registered already.
C3_SynthKeyFresh ==
    (last.op = "create_or_get" /\ last.arg = NoId) => ~last.known

\* C7: cleanup_session(k) raises nothing, leaves the registry without k and
\* with every other registration as it was (so nothing changes when k is
\* absent), and a second cleanup_session(k) changes nothing more.
C7_CleanupIdempotent ==
    [][last'.op = "cleanup" =>
          LET k == last'.key IN
          /\ last'.out = "returned"
          /\ sessions' = [x \in DOMAIN sessions \ {k} |-> sessions[x]]
          /\ runners' = [x \in DOMAIN runners \ {k} |-> runners[x]]
          /\ CleanupDict(sessions', k) = sessions'
          /\ CleanupDict(runners', k) = runners']_vars

\* cleanup_session has removed a registered key and left another one registered
C7_Witness ==
    /\ last.op = "cleanup"
    /\ last.known
    /\ last.key \notin DOMAIN sessions
    /\ DOMAIN sessions # {}

\* C8 (as claimed): the runtime's session service holds a native session for a
\* key only if the key is registered.
C8_NativeLifetimeScoped ==
    \A uk \in DOMAIN rtStore : uk[2] \in DOMAIN sessions

(***************************************************************************)
(* Claims about the session state.                                         *)
(***************************************************************************)
\* C4: on a key that is not registered, initialize_session_with_user_data,
\* get_session_state and extract_itinerary_from_session fail with ValueError
\* and change neither the registry (no session is created) nor the runtime's
\* store nor any session's state.  Checked under SpecState.
C4_UnregisteredFails ==
    [][(last'.op \in {"initialize", "get_state", "extract"}
          /\ last'.key \notin DOMAIN sessions)
        => /\ last'.out = "ValueError"
           /\ sessions' = sessions
           /\ rtStore' = rtStore
           /\ rtLog' = rtLog
           /\ state' = state
           /\ cells' = cells
           /\ history' = history]_vars

\* one of the three has failed on a key that was created and then cleaned up,
\* while the runtime still keeps an initialized state
C4_Witness ==
    /\ last.op \in {"initialize", "get_state", "extract"}
    /\ last.out = "ValueError"
    /\ <<StateUser, last.key>> \in DOMAIN rtStore
    /\ last.key \notin DOMAIN sessions
    /\ \E h \in DOMAIN state : "user_profile" \in DOMAIN state[h]

\* v is the profile's value of field f, or the default where the profile has none
C5_ValueOrDefault(profile, f, v, default) ==
    IF f \in DOMAIN profile THEN v = profile[f] ELSE v = default

\* C5: after initialize_session_with_user_data has succeeded, the session's
\* state holds user_profile, itinerary and system_time; each listed field of
\* user_profile is the profile's value or its default (display name falls back
\* to the first name, then to ""; prior trips to the empty list), none is
\* absent, and the itinerary is the empty mapping.  Checked under SpecProfile.
C5_DefaultsApplied ==
    (last.op = "initialize" /\ last.out = "returned") =>
        LET st == state[sessions[last.key]]
            p == last.arg.profile
            t == last.arg.trips IN
        /\ {"user_profile", "itinerary", "system_time"} \subseteq DOMAIN st
        /\ LET up == cells[st["user_profile"].ref] IN
           /\ C5_ValueOrDefault(p, "display_name", up.display_name,
                                IF "first_name" \in DOMAIN p THEN p["first_name"] ELSE "")
           /\ C5_ValueOrDefault(p, "passport_nationality", up.passport_nationality, "US")
           /\ C5_ValueOrDefault(p, "address", up.home.address, "Default Address")
           /\ C5_ValueOrDefault(p, "preferred_transport", up.home.local_prefer_mode, "driving")
           /\ C5_ValueOrDefault(p, "travel_style", up.preferences.travel_style, "adventure")
           /\ C5_ValueOrDefault(p, "budget_range", up.preferences.budget_range, "moderate")
           /\ up.preferences.previous_trips = (IF t.isNone THEN <<>> ELSE t.items)
           /\ None \notin {up.display_name, up.passport_nationality, up.home.address,
                           up.home.local_prefer_mode, up.preferences.travel_style,
                           up.preferences.budget_range}
        /\ cells[st["itinerary"].ref] = EmptyDict

\* a session was initialized with a profile that gives some of the listed
\* fields and lacks others, and with no trip list
C5_Witness ==
    /\ last.op = "initialize"
    /\ last.out = "returned"
    /\ "travel_style" \in DOMAIN last.arg.profile
    /\ DOMAIN last.arg.profile \cap {"display_name", "address", "passport_nationality"} = {}
    /\ last.arg.trips.isNone
    /\ cells[state[sessions[last.key]]["user_profile"].ref].home.address = "Default Address"

\* what the mapping the caller holds reads now
C6_SnapshotReads == Deep(snap.state, cells)
\* what the sessions' states read now
C6_StatesRead == [h \in DOMAIN state |-> Deep(state[h], cells)]

\* a write to a session's state leaves what the returned mapping reads as it was
C6_WritesKeptOut ==
    (snap.session_id # None /\ last'.op \in {"initialize", "runtime_write"})
        => C6_SnapshotReads' = C6_SnapshotReads
\* a change the caller makes to the returned mapping leaves the states as they were
C6_CallerKeptOut ==
    (snap.session_id # None /\ last'.op = "caller_write")
        => C6_StatesRead' = C6_StatesRead

\* C6 (as claimed): what get_session_state returned is a snapshot: no later
\* write to the session's state, nested values included, changes what it reads,
\* and no change the caller makes to it changes the session's state.
\* Checked under SpecState.
C6_SnapshotIsolated == [][C6_WritesKeptOut /\ C6_CallerKeptOut]_vars

(***************************************************************************)
(* Claims about send_message, checked under SpecSend.                      *)
(***************************************************************************)
\* C9: send_message on an unregistered key fails with ValueError; the call
\* has not invoked the runtime's run_async and its sequence has emitted no
\* wire event, an error event included.
C9_UnregisteredSendFails ==
    /\ (last.op = "send" /\ ~last.known)
          => (last.out = "ValueError" /\ turn.pc = "failed")
    /\ turn.pc = "failed" => (~turn.ran /\ emitted = <<>>)

\* send_message has failed on a key that was registered and then cleaned up
C9_Witness ==
    /\ last.op = "send"
    /\ last.out = "ValueError"
    /\ turn.pc = "failed"
    /\ <<StateUser, turn.key>> \in DOMAIN rtStore

\* C10: with structured_only false and a native stream of n >= 1 events that
\* ends without raising, the events emitted so far are the translations of
\* the native events delivered so far, one each and in their order, and when
\* the sequence has ended they are exactly n.
C10_StreamedInOrder ==
    (turn.pc \in {"running", "done"} /\ ~turn.so /\ turn.ends = "ok"
        /\ Len(turn.given) >= 1)
    => LET n == Len(turn.given) - Len(turn.stream) IN
       /\ Len(emitted) = n
       /\ \A i \in 1..n : \E t \in 0..now : emitted[i] = ConvertEvent(turn.given[i], t)
       /\ turn.pc = "done" => n = Len(turn.given)

\* a stream of two different native events, the first one structured, has
\* been emitted to its end in streaming mode
C10_Witness ==
    /\ turn.pc = "done"
    /\ ~turn.so
    /\ turn.ends = "ok"
    /\ Len(turn.given) = 2
    /\ turn.given[1] = EvFlights
    /\ turn.given[2] = EvText
    /\ Len(emitted) = 2

(***************************************************************************)
(* Claims about structured-only turns, checked under SpecStructured.       *)
(***************************************************************************)
\* the native event is translated to an event of type structured_response
C11_TranslatesStructured(ev) == ConvertEvent(ev, now)["type"].v = "structured_response"
\* the turn is a structured-only one whose native stream ended without raising
\* and that has run to its end
C11_DrainedStructuredOnly == turn.pc = "done" /\ turn.so /\ turn.ends = "ok"

\* C11 (as claimed): with structured_only true, a fully drained send_message
\* over a native stream that holds at least one event translated to
\* structured_response has emitted exactly one wire event.
C11_ExactlyOneStructured ==
    (/\ C11_DrainedStructuredOnly
     /\ \E i \in 1..Len(turn.given) : C11_TranslatesStructured(turn.given[i]))
    => Len(emitted) = 1

\* the position of the first event of the stream translated to structured_response
C12_FirstStructuredAt(stream) ==
    CHOOSE i \in 1..Len(stream) :
        /\ C11_TranslatesStructured(stream[i])
        /\ \A j \in 1..(i - 1) : ~C11_TranslatesStructured(stream[j])

\* C12 (as claimed): with structured_only true, the event emitted once the
\* native stream has ended is the first event of the turn classified as
\* structured_response, whatever structured events follow it.
C12_FirstStructuredKept ==
    (/\ C11_DrainedStructuredOnly
     /\ \E i \in 1..Len(turn.given) : C11_TranslatesStructured(turn.given[i]))
    => /\ Len(emitted) >= 1
       /\ emitted[Len(emitted)] =
              ConvertEvent(turn.given[C12_FirstStructuredAt(turn.given)], now)

\* C13 (as claimed): with structured_only true, send_message emits nothing
\* while the native stream is still being consumed.
C13_NothingBeforeStreamEnd ==
    (turn.pc = "running" /\ turn.so) => emitted = <<>>

\* C14 (as claimed): with structured_only true and a native stream that ends
\* without raising and holds no event classified as structured_response,
\* send_message emits nothing.
C14_NoStructuredNothingEmitted ==
    (/\ C11_DrainedStructuredOnly
     /\ \A i \in 1..Len(turn.given) : ~C11_TranslatesStructured(turn.given[i]))
    => emitted = <<>>

C16_Yielded(stream, so) ==
    SelectSeq([i \in 1..Len(stream) |-> ConvertEvent(stream[i], now)],
              LAMBDA w : YieldsNow(so, w))

RECURSIVE C17_JsonSafe(_)
C17_JsonSafe(x) ==
    CASE x.t \in {"null", "str", "num", "bool"} -> TRUE
      [] x.t = "list" -> \A i \in 1..Len(x.v) : C17_JsonSafe(x.v[i])
      [] x.t = "dict" -> \A k \in DOMAIN x.v : C17_JsonSafe(x.v[k])
      [] OTHER -> FALSE

\* C17: whatever capabilities of the native event are present, absent or
\* failing, _convert_adk_event_to_dict returns a wire event that has type,
\* author and timestamp and whose every value is JSON-safe.
C17_TranslationTotalAndSafe ==
    (last.op = "convert")
    => /\ last.out = "returned"
       /\ {"type", "author", "timestamp"} \subseteq DOMAIN convOut
       /\ \A k \in DOMAIN convOut : C17_JsonSafe(convOut[k])

\* an event whose author and finality fail to read and whose timestamp,
\* function calls and function responses are objects has been translated
C17_Witness ==
    /\ last.op = "convert"
    /\ convIn.author.k = "raises"
    /\ convIn.final.k = "raises"
    /\ convIn.timestamp = Val(PyObject("2026-01-01 10:00:00"))
    /\ Present(convIn.calls)
    /\ Present(convIn.resps)
    /\ "function_responses" \in DOMAIN convOut

\* two JSON values are the same value
RECURSIVE C18_SameValue(_, _)
C18_SameValue(a, b) ==
    /\ a.t = b.t
    /\ CASE a.t = "null" -> TRUE
         [] a.t = "list" -> /\ Len(a.v) = Len(b.v)
                            /\ \A i \in 1..Len(a.v) : C18_SameValue(a.v[i], b.v[i])
         [] a.t = "dict" -> /\ DOMAIN a.v = DOMAIN b.v
                            /\ \A k \in DOMAIN a.v : C18_SameValue(a.v[k], b.v[k])
         [] OTHER -> a.v = b.v
\* two wire events have the same fields with the same values
C18_SameWire(a, b) ==
    /\ DOMAIN a = DOMAIN b
    /\ \A k \in DOMAIN a : C18_SameValue(a[k], b[k])

\* C18 (as claimed): when reading one field of the native event fails, the
\* wire event is the one the translator returns for the same event with that
\* field absent: only the broken field is omitted, every other field is
\* translated as usual.
C18_FailuresContained ==
    (last.op = "convert")
    => \A f \in DOMAIN convIn :
          convIn[f].k = "raises"
          => C18_SameWire(convOut, ConvertEvent([convIn EXCEPT ![f] = Absent], now))

\* C19: a native event that carries a non-empty error message is translated to
\* a wire event of type error with error = true and the error text as its
\* message, whatever its content, function calls, function responses and
\* finality are.
C19_ErrorOverrides ==
    (last.op = "convert" /\ Present(convIn.error))
    => /\ convOut["type"].v = "error"
       /\ "error" \in DOMAIN convOut
       /\ convOut["error"].t = "bool"
       /\ convOut["error"].v
       /\ "message" \in DOMAIN convOut
       /\ C18_SameValue(convOut["message"], convIn.error.v)

\* an event that is final, erroring, with structured content, function calls
\* and function responses has been translated
C19_Witness ==
    /\ last.op = "convert"
    /\ Present(convIn.error)
    /\ Present(convIn.final)
    /\ Present(convIn.calls)
    /\ Present(convIn.resps)
    /\ "structured_data" \in DOMAIN convOut
    /\ convOut["type"].v = "error"

\* the same native event, not flagged final
C20_NotFinal(ev) == [ev EXCEPT !.final = Val(JBool(FALSE))]

\* C20: a native event flagged final that carries no error message is
\* translated to a wire event of type final_response with final = true, on
\* which the structured_data and data_type that classification attached are
\* present as they are on the translation of the same event not flagged final.
C20_FinalKeepsStructuredData ==
    (last.op = "convert" /\ Present(convIn.final) /\ ~Present(convIn.error))
    => /\ convOut["type"].v = "final_response"
       /\ "final" \in DOMAIN convOut
       /\ convOut["final"].t = "bool"
       /\ convOut["final"].v
       /\ LET base == ConvertEvent(C20_NotFinal(convIn), now) IN
          \A k \in {"structured_data", "data_type"} :
             /\ k \in DOMAIN base => (k \in DOMAIN convOut /\ C18_SameValue(convOut[k], base[k]))
             /\ k \in DOMAIN convOut => k \in DOMAIN base

\* a final event without error whose content was classified as flights data
\* has been translated
C20_Witness ==
    /\ last.op = "convert"
    /\ Present(convIn.final)
    /\ ~Present(convIn.error)
    /\ ~Present(convIn.resps)
    /\ "structured_data" \in DOMAIN convOut
    /\ "data_type" \in DOMAIN convOut
    /\ convOut["data_type"].v = "flights"
    /\ convOut["type"].v = "final_response"

(***************************************************************************)
(* Claims about classification, checked under SpecClassify.                *)
(***************************************************************************)
\* the content of the event was classified as structured
C21_ContentStructured(ev) ==
    "structured_data" \in DOMAIN BasicProperties(ev, EventDefaults(now))
\* the first function response of the event, converted
C21_FirstResponse(ev) == MakeJsonSerializable(ev.resps.v).v[1]
\* the event has a function response whose payload is a mapping with a data key
C21_HasPayload(ev) ==
    /\ Present(ev.resps)
    /\ LET r == C21_FirstResponse(ev) IN
       /\ r.t = "dict"
       /\ "response" \in DOMAIN r.v
       /\ r.v["response"].t = "dict"
       /\ "data" \in DOMAIN r.v["response"].v
\* the data type the first record of a data sequence stands for
C21_InferredType(data) ==
    IF data.t = "list" /\ Len(data.v) > 0 /\ data.v[1].t = "dict"
    THEN IF "flightNumber" \in DOMAIN data.v[1].v THEN "flights"
         ELSE IF "pricePerNight" \in DOMAIN data.v[1].v THEN "hotels"
         ELSE "absent"
    ELSE "absent"
\* the wire event's data_type is the given one
C21_DataTypeIs(w, ty) ==
    IF ty = "absent" THEN "data_type" \notin DOMAIN w
    ELSE "data_type" \in DOMAIN w /\ w["data_type"].v = ty

\* C21 (as claimed): when the content of a native event is classified as
\* structured and a function response of the event has a payload with a data
\* key, the wire event's structured_data is that payload and its data_type is
\* the one inferred from the payload's first record: flights, hotels or absent.
C21_ResponsePayloadWins ==
    (last.op = "convert" /\ C21_ContentStructured(convIn) /\ C21_HasPayload(convIn))
    => LET payload == C21_FirstResponse(convIn).v["response"] IN
       /\ "structured_data" \in DOMAIN convOut
       /\ C18_SameValue(convOut["structured_data"], payload)
       /\ C21_DataTypeIs(convOut, C21_InferredType(payload.v["data"]))

\* a mapping with a data key whose value is a non-empty sequence of mappings
C22_Qualifies(x) ==
    /\ x.t = "dict"
    /\ "data" \in DOMAIN x.v
    /\ x.v["data"].t = "list"
    /\ Len(x.v["data"].v) > 0
    /\ \A i \in 1..Len(x.v["data"].v) : x.v["data"].v[i].t = "dict"
\* the values the detection looks at: the converted content itself when it is
\* a mapping with a data key, else what the JSON texts of its parts parse to
C22_Candidates(c) ==
    IF c.t = "dict" /\ "data" \in DOMAIN c.v THEN <<c>>
    ELSE IF c.t = "dict" /\ "parts" \in DOMAIN c.v /\ c.v["parts"].t = "list"
         THEN LET texts == SelectSeq(c.v["parts"].v,
                               LAMBDA part : /\ part.t = "dict"
                                             /\ "text" \in DOMAIN part.v
                                             /\ part.v["text"].t = "str"
                                             /\ IsJsonString(part.v["text"].v)) IN
              [i \in 1..Len(texts) |-> JsonLoads(texts[i].v["text"].v)]
         ELSE <<>>
\* every value the detection looks at is a mapping
C22_AllMappings(ev) ==
    LET cands == C22_Candidates(MakeJsonSerializable(ev.content.v)) IN
    \A i \in 1..Len(cands) : cands[i].t = "dict"
\* some value the detection looks at has the structured shape
C22_SomeQualifies(ev) ==
    LET cands == C22_Candidates(MakeJsonSerializable(ev.content.v)) IN
    \E i \in 1..Len(cands) : C22_Qualifies(cands[i])

\* C22 (as claimed): the content of an event without function responses, in
\* which the detection finds only mappings, is
\* classified as structured (structured_data set, and type structured_response
\* when no later step changes the type) exactly when it is, or JSON text in it
\* is, a mapping with a data key whose value is a non-empty sequence of
\* mappings; otherwise the event keeps its type and gets no structured_data.
C22_ShapeDetection ==
    (/\ last.op = "convert"
     /\ Present(convIn.content)
     /\ ~Present(convIn.resps)
     /\ C22_AllMappings(convIn))
    => /\ ("structured_data" \in DOMAIN convOut) <=> C22_SomeQualifies(convIn)
       /\ (~Present(convIn.calls) /\ ~Present(convIn.final))
          => (convOut["type"].v = (IF C22_SomeQualifies(convIn)
                                   THEN "structured_response" ELSE "agent_message"))

\* the detection looks at exactly one value, a mapping with a data sequence
C23_OneDataSequence(ev) ==
    LET cands == C22_Candidates(MakeJsonSerializable(ev.content.v)) IN
    /\ Len(cands) = 1
    /\ cands[1].t = "dict"
    /\ "data" \in DOMAIN cands[1].v
\* that data sequence
C23_DataOf(ev) == C22_Candidates(MakeJsonSerializable(ev.content.v))[1].v["data"]

C23_WitnessLaterRecord ==
    /\ last.op = "convert"
    /\ ~Present(convIn.resps)
    /\ "structured_data" \in DOMAIN convOut
    /\ convOut["structured_data"].t = "dict"
    /\ convOut["structured_data"].v["data"].t = "list"
    /\ Len(convOut["structured_data"].v["data"].v) = 2
    /\ "flightNumber" \in DOMAIN convOut["structured_data"].v["data"].v[2].v
    /\ "data_type" \notin DOMAIN convOut

\* C28 (as claimed): a wire event that carries structured_data carries a
\* mapping with a data key, and a wire event of type structured_response
\* carries structured_data.
C28_StructuredDataIsDataMapping ==
    (last.op = "convert")
    => /\ "structured_data" \in DOMAIN convOut
          => (/\ convOut["structured_data"].t = "dict"
              /\ "data" \in DOMAIN convOut["structured_data"].v)
       /\ convOut["type"].v = "structured_response" => "structured_data" \in DOMAIN convOut

(***************************************************************************)
(* Claims about the keyword classification, checked under SpecIntent.      *)
(***************************************************************************)
\* the lower-cased message of the call contains a keyword of the list
C24_Mentions(keywords) ==
    \E k \in 1..Len(keywords) : Contains(Lower(callIn.message), keywords[k])

\* C24: the keyword sets are looked at in the order flight, hotel, itinerary
\* and the first match wins: a message with a flight keyword is flight
\* whatever else it contains, a message with a hotel keyword and no flight
\* keyword is hotel, one with only an itinerary keyword is itinerary; when a
\* keyword matched the agent name makes no difference, and without keyword
\* and without a hint in the agent name the result is absent.
C24_FirstMatchWins ==
    (last.op = "intent")
    => /\ C24_Mentions(flight_keywords) => callOut = "flight"
       /\ (~C24_Mentions(flight_keywords) /\ C24_Mentions(hotel_keywords)) => callOut = "hotel"
       /\ (/\ ~C24_Mentions(flight_keywords)
           /\ ~C24_Mentions(hotel_keywords)
           /\ C24_Mentions(itinerary_keywords)) => callOut = "itinerary"
       /\ (/\ ~C24_Mentions(flight_keywords)
           /\ ~C24_Mentions(hotel_keywords)
           /\ ~C24_Mentions(itinerary_keywords))
          => /\ callOut = AgentHint(callIn.agent_name)
             /\ (~callIn.agent_name.given \/ callIn.agent_name.name = <<>>) => callOut = None

\* "find me flights and hotels", sent with the agent name hotel_agent, was
\* classified as flight
C24_Witness ==
    /\ last.op = "intent"
    /\ callIn.message = Phrases[1]
    /\ C24_Mentions(hotel_keywords)
    /\ callIn.agent_name = Agent(<<"h","o","t","e","l","_","a","g","e","n","t">>)
    /\ callOut = "flight"

\* a message without keyword was classified by the agent name
C24_WitnessHint ==
    /\ last.op = "intent"
    /\ ~C24_Mentions(flight_keywords)
    /\ ~C24_Mentions(hotel_keywords)
    /\ ~C24_Mentions(itinerary_keywords)
    /\ callIn.message # <<>>
    /\ callOut = "hotel"

(***************************************************************************)
(* Claims about itinerary extraction, checked under SpecState and          *)
(* SpecItinerary.                                                          *)
(***************************************************************************)
\* the day list the session of the key holds: the empty list when the state
\* has no itinerary entry or the itinerary has no days entry
C25_DayList(key) ==
    LET st == state[sessions[key]] IN
    IF "itinerary" \notin DOMAIN st THEN <<>>
    ELSE LET it == cells[st["itinerary"].ref] IN
         IF "days" \in DOMAIN it THEN it["days"] ELSE <<>>

\* C25: extract_itinerary_from_session on a registered session does not
\* raise; it returns a trip exactly when the session's itinerary has a
\* non-empty day list, and absent when the state has no itinerary entry, the
\* itinerary is empty, or its day list is missing or empty.
C25_AbsentWithoutDays ==
    (last.op = "extract" /\ last.known)
    => /\ last.out = "returned"
       /\ DOMAIN last.val \in {{"trip"}, {"absent"}}
       /\ (DOMAIN last.val = {"trip"}) <=> (Len(C25_DayList(last.key)) > 0)

\* extraction returned absent for an itinerary that is not empty and has an
\* empty day list
C25_Witness ==
    /\ last.op = "extract"
    /\ last.known
    /\ "itinerary" \in DOMAIN state[sessions[last.key]]
    /\ LET it == cells[state[sessions[last.key]]["itinerary"].ref] IN
       /\ "destination" \in DOMAIN it
       /\ "days" \in DOMAIN it
       /\ it["days"] = <<>>
    /\ DOMAIN last.val = {"absent"}

\* extraction returned absent for a state without itinerary entry
C25_WitnessNoEntry ==
    /\ last.op = "extract"
    /\ last.known
    /\ "itinerary" \notin DOMAIN state[sessions[last.key]]
    /\ DOMAIN last.val = {"absent"}

\* extraction returned absent for an itinerary without days entry
C25_WitnessNoDays ==
    /\ last.op = "extract"
    /\ last.known
    /\ "itinerary" \in DOMAIN state[sessions[last.key]]
    /\ DOMAIN cells[state[sessions[last.key]]["itinerary"].ref] = {"destination"}
    /\ DOMAIN last.val = {"absent"}

\* extraction returned a trip
C25_WitnessTrip ==
    /\ last.op = "extract"
    /\ last.known
    /\ DOMAIN last.val = {"trip"}

\* the events of day d of the itinerary of the call
C26_EventsOf(d) ==
    LET day == callIn.itinerary["days"][d] IN
    IF "events" \in DOMAIN day THEN day["events"] ELSE <<>>
\* the positions of the events of the itinerary: day and place in the day
C26_Positions ==
    UNION {{<<d, k>> : k \in 1..Len(C26_EventsOf(d))} : d \in 1..Len(callIn.itinerary["days"])}
\* position p comes before position q in the scan over days and events
C26_Before(p, q) == p[1] < q[1] \/ (p[1] = q[1] /\ p[2] < q[2])
\* the event at position p is of the type and gives the value v for the field
C26_Gives(p, etype, field, v) ==
    LET e == C26_EventsOf(p[1])[p[2]] IN
    /\ "event_type" \in DOMAIN e
    /\ e["event_type"] = etype
    /\ field \in DOMAIN e
    /\ e[field] = v
\* the list holds exactly the non-empty values events of the type give for
\* the field, each once, in the order in which they are first seen
C26_ListIs(list, etype, field) ==
    /\ \A i, j \in 1..Len(list) : i # j => list[i] # list[j]
    /\ \A i \in 1..Len(list) :
          list[i] # "" /\ \E p \in C26_Positions : C26_Gives(p, etype, field, list[i])
    /\ \A p \in C26_Positions :
          LET e == C26_EventsOf(p[1])[p[2]] IN
          ("event_type" \in DOMAIN e /\ e["event_type"] = etype /\ field \in DOMAIN e /\ e[field] # "")
          => \E i \in 1..Len(list) : list[i] = e[field]
    /\ \A i, j \in 1..Len(list) :
          i < j => \E p \in C26_Positions :
                      /\ C26_Gives(p, etype, field, list[i])
                      /\ \A q \in C26_Positions :
                            C26_Gives(q, etype, field, list[j]) => C26_Before(p, q)

\* C26: for an itinerary with a non-empty day list, stay_preference,
\* extra_activities and transportation_preference of the trip are exactly the
\* non-empty room_selection values of hotel events, description values of
\* visit events and type values of transportation events, each at most once
\* and in first-seen order over all days and events; an event of one type
\* gives nothing to the list of another.
C26_PreferencesFromEvents ==
    (last.op = "to_trip" /\ Len(callIn.itinerary["days"]) > 0)
    => /\ C26_ListIs(callOut.stay_preference, "hotel", "room_selection")
       /\ C26_ListIs(callOut.extra_activities, "visit", "description")
       /\ C26_ListIs(callOut.transportation_preference, "transportation", "type")

\* the itinerary of the claim's example: a hotel event with room_selection
\* Suite and a visit event with description Museum in one of two days
C26_Witness ==
    /\ last.op = "to_trip"
    /\ callIn.itinerary["days"] = <<DayOne, ItineraryDays[6]>>
    /\ callOut.stay_preference = <<"Suite">>
    /\ callOut.extra_activities = <<"Museum">>
    /\ callOut.transportation_preference = <<>>

\* a value seen in two days is listed once, at its first place, and a visit
\* event's room_selection is not listed
C26_WitnessRepeated ==
    /\ last.op = "to_trip"
    /\ callIn.itinerary["days"] = <<ItineraryDays[3], ItineraryDays[5]>>
    /\ callOut.transportation_preference = <<"train", "bus">>
    /\ callOut.stay_preference = <<>>

(***************************************************************************)
(* Claims about the frames of the /chat route, checked under SpecSend.     *)
(***************************************************************************)
\* the type the frame's json carries
C27_TypeOf(frame) == frame.data.v["type"].v

\* C27 (as claimed): the frames of every finished /chat turn, whether it
\* succeeded, failed in the runtime or named an unregistered session, start
\* with connection_established, carry one frame per wire event in emission
\* order, and end with the one stream_complete frame.
C27_EndsWithStreamComplete ==
    (turn.pc \in {"done", "failed"} /\ ~turn.so)
    => /\ Len(ChatFrames) >= 2
       /\ C27_TypeOf(ChatFrames[1]) = "connection_established"
       /\ C27_TypeOf(ChatFrames[Len(ChatFrames)]) = "stream_complete"
       /\ Len(ChatFrames) = Len(emitted) + 2
       /\ \A i \in 1..Len(emitted) : C18_SameWire(ChatFrames[i + 1].data.v, emitted[i])
       /\ \A i \in 1..(Len(ChatFrames) - 1) : C27_TypeOf(ChatFrames[i]) # "stream_complete"

\* the event translates to a wire event that carries structured_data
C29_CarriesData(ev) == "structured_data" \in DOMAIN ConvertEvent(ev, now)

\* C29 (as claimed): when some native event of a fully drained
\* structured-only turn translates to a wire event carrying structured_data,
\* whatever type later translator steps gave it, the turn emits an event
\* carrying structured_data and the /chat-structured route reports success.
C29_StructuredDataNeverLost ==
    (/\ C11_DrainedStructuredOnly
     /\ \E i \in 1..Len(turn.given) : C29_CarriesData(turn.given[i]))
    => /\ \E k \in 1..Len(emitted) : "structured_data" \in DOMAIN emitted[k]
       /\ ChatStructuredSuccess

(***************************************************************************)
(* Claims about initialization of sessions in use, checked under           *)
(* SpecReinit.                                                             *)
(***************************************************************************)
\* the keys initialize_session_with_user_data writes
C30_Written == {"user_profile", "itinerary", "system_time"}

\* the step is an initialization of the registered session h
C30_Initializes(h) ==
    /\ last'.op = "initialize"
    /\ last'.known
    /\ h = sessions[last'.key]

\* C30: an initialization of a registered session writes the keys
\* user_profile, itinerary and system_time of that session only: its other
\* keys, the states of the other sessions and the objects they hold are
\* unchanged, the registry is unchanged, and the session's itinerary is a
\* new empty one even when the runtime had filled the old one; an
\* extract_itinerary_from_session that directly follows on the same key
\* returns absent.
C30_InitializeWritesOnlyContext ==
    [][/\ \A h \in DOMAIN state :
            C30_Initializes(h)
            => /\ sessions' = sessions
               /\ DOMAIN state' = DOMAIN state
               /\ \A g \in DOMAIN state \ {h} : state'[g] = state[g]
               /\ DOMAIN state'[h] = DOMAIN state[h] \cup C30_Written
               /\ \A k \in DOMAIN state[h] \ C30_Written : state'[h][k] = state[h][k]
               /\ \A c \in DOMAIN cells : c \in DOMAIN cells' /\ cells'[c] = cells[c]
               /\ state'[h]["itinerary"].ref \notin DOMAIN cells
               /\ cells'[state'[h]["itinerary"].ref] = EmptyDict
       /\ (/\ last.op = "initialize"
           /\ last.known
           /\ last'.op = "extract"
           /\ last'.key = last.key)
          => (last'.out = "returned" /\ DOMAIN last'.val = {"absent"})]_vars

\* the create-session route was repeated on "s1" after the runtime had
\* written a note and a plan with a day into its state, and "s2" holds a note
C30_Witness ==
    /\ last.op = "initialize"
    /\ last.step = "route"
    /\ last.key = StateKey
    /\ "agent_note" \in DOMAIN state[sessions[StateKey]]
    /\ "agent_note" \in DOMAIN state[sessions[OtherKey]]
    /\ \E c \in DOMAIN cells :
          /\ "days" \in DOMAIN cells[c]
          /\ Len(cells[c]["days"]) > 0
          /\ c # state[sessions[StateKey]]["itinerary"].ref
    /\ cells[state[sessions[StateKey]]["itinerary"].ref] = EmptyDict

\* an extraction that followed the repeated initialization returned absent
C30_WitnessExtract ==
    /\ last.op = "extract"
    /\ last.key = StateKey
    /\ DOMAIN last.val = {"absent"}
    /\ state[sessions[StateKey]]["itinerary"].ref > 2
    /\ \E c \in DOMAIN cells : "days" \in DOMAIN cells[c] /\ Len(cells[c]["days"]) > 0
====
